---- MODULE Spec2Model ----
(***************************************************************************)
(* Sales dashboard: the derivations the three page variants compute from   *)
(* the payload (src/app/page.tsx, src/unnamed/part_000,                     *)
(* src/unnamed/part_001).                                                   *)
(*                                                                         *)
(* Optional values (a field that may be absent from a JSON object) are     *)
(* sequences of length 0 or 1: << >> is "absent", <<v>> is "present, v".    *)
(* Non-integer numbers are exact fractions [n |-> numerator, d |-> denom]. *)
(***************************************************************************)
EXTENDS Integers, Sequences, FiniteSets, TLC

(* ------------------------------ bounds -------------------------------- *)
\* days of a range series
MaxDays == 2
\* records of a payload (over all its days)
MaxRecs == 3
\* largest topN handed to buildStacked
MaxTopN == 2
\* rows of a leaderboard table
MaxRows == 3
\* rows of a day payload handed to the chart memos
MaxKpiRows == 2
\* rows of a day payload handed to the stacked memo of page.tsx
MaxDayRows == 7

(* --------------------------- value domains ---------------------------- *)
\* agent identifiers of the top-N inputs; "7" is a canonical array index
GroupAgents == {"A", "B", "7"}
GroupSales == {1, 2}
DateOf(i) == IF i = 1 THEN "d1" ELSE IF i = 2 THEN "d2" ELSE IF i = 3 THEN "d3" ELSE "d4"

Absent == << >>
Has(x) == x # << >>
\* x ?? d
Coalesce(x, d) == IF Has(x) THEN x[1] ELSE d

Min(a, b) == IF a <= b THEN a ELSE b
Max(a, b) == IF a >= b THEN a ELSE b

Range(s) == {s[i] : i \in DOMAIN s}

RECURSIVE SumSales(_)
SumSales(recs) ==
  IF recs = << >> THEN 0 ELSE Head(recs).sales + SumSales(Tail(recs))

\* Array.prototype.slice(0, n) for n >= 0
SliceFront(s, n) == SubSeq(s, 1, Min(n, Len(s)))

(* ------------------- JavaScript object key order ---------------------- *)
\* The numeric value of a property key that is a canonical array index,
\* -1 for every other key.
ArrayIndexOf(k) == IF k = "7" THEN 7 ELSE IF k = "10" THEN 10 ELSE -1
IsArrayIndex(k) == ArrayIndexOf(k) >= 0

\* the distinct agents of a record sequence, in order of first appearance
\* (the order in which totals[agent] is first assigned)
RECURSIVE InsertionOrder(_, _)
InsertionOrder(recs, seen) ==
  IF recs = << >> THEN << >>
  ELSE IF Head(recs).agent \in seen THEN InsertionOrder(Tail(recs), seen)
  ELSE <<Head(recs).agent>> \o InsertionOrder(Tail(recs), seen \cup {Head(recs).agent})

\* ascending sequence of a set of array-index keys
RECURSIVE IndexKeysAscending(_)
IndexKeysAscending(S) ==
  IF S = {} THEN << >>
  ELSE LET m == CHOOSE k \in S : \A o \in S : ArrayIndexOf(k) <= ArrayIndexOf(o)
       IN <<m>> \o IndexKeysAscending(S \ {m})

\* Object.entries / Object.keys order of an object whose string keys were
\* created in the order ins: array-index keys ascending, then the others
\* in creation order.
ObjectKeyOrder(ins) ==
  IndexKeysAscending({k \in Range(ins) : IsArrayIndex(k)})
    \o SelectSeq(ins, LAMBDA k : ~IsArrayIndex(k))

(* --------------------------- stable sorting --------------------------- *)
\* Array.prototype.sort(compare) is stable.  The array is given by its
\* indices 1..n and the comparator by cmp[i, j], the number compare(a_i, a_j)
\* returns; the result is the sequence of indices in sorted order.  An
\* element is placed after every element already placed that does not
\* compare greater than it.
RECURSIVE InsertBeforeEqual(_, _, _)
InsertBeforeEqual(sorted, e, cmp) ==
  IF sorted = << >> THEN <<e>>
  ELSE IF cmp[Head(sorted), e] >= 0 THEN <<e>> \o sorted
  ELSE <<Head(sorted)>> \o InsertBeforeEqual(Tail(sorted), e, cmp)

RECURSIVE InsertStable(_, _, _)
InsertStable(sorted, e, cmp) ==
  IF sorted = << >> THEN <<e>>
  ELSE IF cmp[Head(sorted), e] > 0 THEN <<e>> \o sorted
  ELSE <<Head(sorted)>> \o InsertStable(Tail(sorted), e, cmp)

RECURSIVE SortStable(_, _)
SortStable(n, cmp) ==
  IF n = 0 THEN << >>
  ELSE InsertStable(SortStable(n - 1, cmp), n, cmp)

\* the elements of s in the order perm
Permute(s, perm) == [i \in 1..Len(perm) |-> s[perm[i]]]

(* ============================ Top-N Grouper =========================== *)
\* part_000: .slice(0, 6)
TopSix == 6

\* every record of the series, day after day (the order of the two loops)
RECURSIVE AllRecords(_)
AllRecords(daily) ==
  IF daily = << >> THEN << >> ELSE Head(daily).byAgent \o AllRecords(Tail(daily))

RecordsOf(recs, a) == SelectSeq(recs, LAMBDA r : r.agent = a)

\* totals[a.agent] = (totals[a.agent] || 0) + (a.sales || 0)
AgentTotals(daily) ==
  [a \in Range(InsertionOrder(AllRecords(daily), {})) |->
     SumSales(RecordsOf(AllRecords(daily), a))]

\* Object.entries(totals).sort((a, b) => b[1] - a[1]): the agent names
SortedByTotal(daily) ==
  LET totals  == AgentTotals(daily)
      entries == ObjectKeyOrder(InsertionOrder(AllRecords(daily), {}))
      cmp     == [i \in 1..Len(entries), j \in 1..Len(entries) |->
                    totals[entries[j]] - totals[entries[i]]]
  IN Permute(entries, SortStable(Len(entries), cmp))

RankedNoSlice(daily, n) == SortedByTotal(daily)

\* .sort(...).slice(0, topN).map(([name]) => name)
Ranked(daily, n) == SliceFront(SortedByTotal(daily), n)

\* page.tsx: a row gets a field only for the ranked agents that have a
\* record that day; the sales of several records of one agent add up.
StackedRow(d, ranked) ==
  [date |-> d.date,
   vals |-> [a \in {r.agent : r \in Range(d.byAgent)} \cap Range(ranked) |->
               SumSales(RecordsOf(d.byAgent, a))]]

buildStackedNewestFirst(daily, n) ==
  [data |-> [i \in 1..Len(daily) |-> StackedRow(daily[Len(daily) + 1 - i], Ranked(daily, n))],
   keys |-> Ranked(daily, n)]

buildStackedPadsEmpty(daily, n) ==
  IF Len(daily) = 0 THEN [data |-> <<[date |-> "", vals |-> << >>]>>, keys |-> << >>]
  ELSE [data |-> [i \in 1..Len(daily) |-> StackedRow(daily[i], Ranked(daily, n))],
        keys |-> Ranked(daily, n)]

\* page.tsx buildStacked: if (!agentDaily?.length) return { data: [], keys: [] }
buildStacked(daily, n) ==
  IF Len(daily) = 0 THEN [data |-> << >>, keys |-> << >>]
  ELSE [data |-> [i \in 1..Len(daily) |-> StackedRow(daily[i], Ranked(daily, n))],
        keys |-> Ranked(daily, n)]

\* part_000: every row gets a field for every top agent: the sales of the
\* first record of that agent that day, 0 when there is none.
StackedRowP0(d, top) ==
  [date |-> d.date,
   vals |-> [a \in Range(top) |->
               IF RecordsOf(d.byAgent, a) = << >> THEN 0
               ELSE Head(RecordsOf(d.byAgent, a)).sales]]

stackedP0(m, daily) ==
  IF m # "RANGE" THEN [data |-> << >>, keys |-> << >>]
  ELSE [data |-> [i \in 1..Len(daily) |-> StackedRowP0(daily[i], Ranked(daily, TopSix))],
        keys |-> Ranked(daily, TopSix)]

(* ========================= Leaderboard Ranker ======================== *)
\* String.prototype.toLowerCase on the agent names of the model
LowerCase(name) == IF name = "A" THEN "a" ELSE IF name = "B" THEN "b"
                   ELSE IF name = "Z" THEN "z" ELSE name

\* the order of the < operator on strings (UTF-16 code units):
\* digits < upper-case letters < lower-case letters
CodeUnitRank(name) ==
  CASE name = "7" -> 1 [] name = "A" -> 2 [] name = "B" -> 3 [] name = "Z" -> 4
    [] name = "a" -> 5 [] name = "b" -> 6 [] name = "z" -> 7

\* the order of String.prototype.localeCompare (default collation): letters
\* in alphabetical order, the lower-case form of a letter before its
\* upper-case form, and no two different strings equal
LocaleRank(name) ==
  CASE name = "7" -> 1 [] name = "a" -> 2 [] name = "A" -> 3 [] name = "b" -> 4
    [] name = "B" -> 5 [] name = "z" -> 6 [] name = "Z" -> 7

Sign(x) == IF x < 0 THEN -1 ELSE IF x > 0 THEN 1 ELSE 0

\* page.tsx: the comparator of the leaderboard memo
\*   dir = sortDir === "asc" ? 1 : -1
\*   agent: a.agent.localeCompare(b.agent) * dir; else (a.sales - b.sales) * dir
CompareLeaderboard(a, b, key, dir) ==
  LET d == IF dir = "asc" THEN 1 ELSE -1
  IN IF key = "agent" THEN Sign(LocaleRank(a.agent) - LocaleRank(b.agent)) * d
     ELSE (a.sales - b.sales) * d

SortValueMissingLast(r, key) ==
  IF key = "agent" THEN CodeUnitRank(LowerCase(r.agent))
  ELSE IF key = "sales" THEN r.sales
  ELSE Coalesce(r.percent, 100)

\* part_001: the value a row is compared by
\*   agent: a.agent.toLowerCase(); sales: a.sales ?? 0; percent: a.percent ?? 0
SortValue(r, key) ==
  IF key = "agent" THEN CodeUnitRank(LowerCase(r.agent))
  ELSE IF key = "sales" THEN r.sales
  ELSE Coalesce(r.percent, 0)

CompareDayRowsTiesLast(a, b, key, dir) ==
  IF SortValue(a, key) < SortValue(b, key) THEN (IF dir = "asc" THEN -1 ELSE 1)
  ELSE (IF dir = "asc" THEN 1 ELSE -1)

\* part_001: the comparator of the sortedDayRows memo
CompareDayRows(a, b, key, dir) ==
  IF SortValue(a, key) < SortValue(b, key) THEN (IF dir = "asc" THEN -1 ELSE 1)
  ELSE IF SortValue(a, key) > SortValue(b, key) THEN (IF dir = "asc" THEN 1 ELSE -1)
  ELSE 0

\* part_000: .sort((a, b) => (b.percent ?? 0) - (a.percent ?? 0))
ComparePercentDesc(a, b) == Coalesce(b.percent, 0) - Coalesce(a.percent, 0)

\* the comparator a page variant sorts its table with
Compare(v, a, b, key, dir) ==
  IF v = "page" THEN CompareLeaderboard(a, b, key, dir)
  ELSE IF v = "part_001" THEN CompareDayRows(a, b, key, dir)
  ELSE ComparePercentDesc(a, b)

\* arr.sort(compare) on the rows arr
SortRows(v, arr, key, dir) ==
  Permute(arr, SortStable(Len(arr),
            [i \in 1..Len(arr), j \in 1..Len(arr) |-> Compare(v, arr[i], arr[j], key, dir)]))

SortedInPlace(v, source, key, dir) ==
  [source |-> SortRows(v, source, key, dir), sorted |-> SortRows(v, source, key, dir)]

\* const arr = [...source]; arr.sort(compare): the sort reorders the copy.
\* source: the array the payload holds afterwards; sorted: the memo's value.
SortedCopy(v, source, key, dir) ==
  [source |-> source, sorted |-> SortRows(v, source, key, dir)]

SourceIsKPIWheneverDay(v, m, kpi) == m = "DAY"

\* whether the table's source is perAgentKPI (else agentLeaderboard)
\*   page.tsx: mode === "DAY" && perAgentKPI.length > 0
\*   part_000, part_001: the DAY table; the RANGE table is not sorted
SourceIsKPI(v, m, kpi) ==
  IF v = "page" THEN m = "DAY" /\ Len(kpi) > 0 ELSE m = "DAY"

\* whether the variant sorts the table it shows in mode m
Sorts(v, m) == v = "page" \/ m = "DAY"

(* ============================ KPI Calculator ========================== *)
RECURSIVE Gcd(_, _)
Gcd(a, b) == IF b = 0 THEN a ELSE Gcd(b, a % b)
Abs(x) == IF x < 0 THEN -x ELSE x

\* the number n / d (d > 0) in lowest terms
Frac(n, d) == LET g == Gcd(Abs(n), d) IN [n |-> n \div g, d |-> d \div g]
Num(i) == [n |-> i, d |-> 1]
FracLess(a, b) == a.n * b.d < b.n * a.d

\* the fallback targets of part_001: status === "FT" ? 6.5 : 4
TargetFT == [n |-> 13, d |-> 2]
TargetPT == [n |-> 4, d |-> 1]

EffectiveTargetIgnoringOwn(r) == IF r.status = <<"FT">> THEN TargetFT ELSE TargetPT

\* part_001: const target = r.target ?? (r.status === "FT" ? 6.5 : 4)
EffectiveTarget(r) ==
  IF Has(r.target) THEN Num(r.target[1])
  ELSE IF r.status = <<"FT">> THEN TargetFT ELSE TargetPT

\* (sales / target) * 100
PercentOfTarget(sales, target) == Frac(sales * 100 * target.d, target.n)

\* part_001 kpiChartData: const raw = typeof r.percent === "number" ? r.percent
\*   : target ? (sales / target) * 100 : 0
\* The result is optional so that "no value" (undefined) can be told from 0;
\* the code yields a number on every path.
AgentPercent(r) ==
  IF Has(r.percent) THEN <<Num(r.percent[1])>>
  ELSE IF EffectiveTarget(r).n # 0 THEN <<PercentOfTarget(r.sales, EffectiveTarget(r))>>
  ELSE <<Num(0)>>

\* Math.max(0, Math.min(200, raw))
Clamp(raw) ==
  IF FracLess(raw, Num(0)) THEN Num(0)
  ELSE IF FracLess(Num(200), raw) THEN Num(200) ELSE raw

\* part_001: one kpiChartData entry (agent stands for first: the names of
\* the model are single words); raw is the entry's local const
KpiChartEntry(r) ==
  [agent |-> r.agent, raw |-> AgentPercent(r), percent |-> Clamp(AgentPercent(r)[1])]

\* part_001: one salesChartData entry: the percent is always computed from
\* the target, the row's own percent is not read
SalesChartEntry(r) ==
  [agent |-> r.agent, sales |-> r.sales,
   percent |-> IF EffectiveTarget(r).n # 0
               THEN PercentOfTarget(r.sales, EffectiveTarget(r)) ELSE Num(0)]

\* Math.round(x * 10) / 10
RoundTenths(x) == Frac((2 * 10 * x.n + x.d) \div (2 * x.d), 10)

\* part_000: one entry of the KPI chart: percent: round((r.percent ?? 0) * 10) / 10
ChartEntryP0(r) ==
  [agent |-> r.agent, raw |-> <<Num(Coalesce(r.percent, 0))>>,
   percent |-> RoundTenths(Num(Coalesce(r.percent, 0)))]

\* part_000: the chart's data, .sort((a, b) => b.percent - a.percent)
ChartDataP0(rows) ==
  LET es == [i \in 1..Len(rows) |-> ChartEntryP0(rows[i])]
      cmp == [i \in 1..Len(es), j \in 1..Len(es) |->
                es[j].percent.n * es[i].percent.d - es[i].percent.n * es[j].percent.d]
  IN Permute(es, SortStable(Len(es), cmp))

(* ============================ period summary ========================== *)
\* Number.prototype.toFixed(2) of a number >= 0, as the number it prints
ToFixed2(x) == Frac((2 * 100 * x.n + x.d) \div (2 * x.d), 100)

\* page.tsx normalizePayload: Number(json?.field ?? 0), for a field that is a
\* number or absent
NormalizeNumber(x) == Coalesce(x, Num(0))

KpisDayDailyFromPayload(rows, totals) ==
  LET totalKPI == NormalizeNumber(totals.totalKPI)
      agents   == Len(rows)
  IN [totalSales |-> totalKPI,
      totalAgents |-> Num(agents),
      avgPerAgent |-> IF agents # 0 THEN ToFixed2(Frac(totalKPI.n, totalKPI.d * agents)) ELSE Num(0),
      avgDailyAgents |-> NormalizeNumber(totals.avgDailyAgents)]

\* page.tsx kpis, DAY branch
\*   apr = agents ? +(totalKPI / agents).toFixed(2) : 0
KpisDay(rows, totals) ==
  LET totalKPI == NormalizeNumber(totals.totalKPI)
      agents   == Len(rows)
  IN [totalSales |-> totalKPI,
      totalAgents |-> Num(agents),
      avgPerAgent |-> IF agents # 0 THEN ToFixed2(Frac(totalKPI.n, totalKPI.d * agents)) ELSE Num(0),
      avgDailyAgents |-> Num(agents)]

\* page.tsx kpis, RANGE branch: the normalized payload's numbers
KpisRange(totals) ==
  [totalSales |-> NormalizeNumber(totals.totalSales),
   totalAgents |-> NormalizeNumber(totals.totalAgents),
   avgPerAgent |-> NormalizeNumber(totals.avgPerAgent),
   avgDailyAgents |-> NormalizeNumber(totals.avgDailyAgents)]

\* part_000 and part_001 headerStats, DAY branch
\*   avgPerAgent = totalAgents ? (totalSales / totalAgents).toFixed(2) : "0.00"
HeaderStatsDay(rows, totals) ==
  LET totalSales == Coalesce(totals.totalKPI, Num(0))
      agentsDay  == Len(rows)
  IN [totalSales |-> totalSales,
      totalAgents |-> Num(agentsDay),
      avgPerAgent |-> ToFixed2(IF agentsDay # 0 THEN Frac(totalSales.n, totalSales.d * agentsDay)
                               ELSE Num(0)),
      avgDailyAgents |-> Num(agentsDay)]

\* part_000 and part_001 headerStats, RANGE branch
\*   avgPerAgent: (rangeData?.avgPerAgent ?? 0).toFixed(2)
HeaderStatsRange(totals) ==
  [totalSales |-> Coalesce(totals.totalSales, Num(0)),
   totalAgents |-> Coalesce(totals.totalAgents, Num(0)),
   avgPerAgent |-> ToFixed2(Coalesce(totals.avgPerAgent, Num(0))),
   avgDailyAgents |-> Coalesce(totals.avgDailyAgents, Num(0))]

\* the summary a variant shows in mode m
Summary(v, m, rows, totals) ==
  IF v = "page" THEN (IF m = "DAY" THEN KpisDay(rows, totals) ELSE KpisRange(totals))
  ELSE (IF m = "DAY" THEN HeaderStatsDay(rows, totals) ELSE HeaderStatsRange(totals))

(* =========================== Record Normalizer ======================== *)
\* A JSON value as the page receives it: the pair of its kind and its content.
\* "absent" is a property the object does not have (reads as undefined).
JAbsent == <<"absent", << >>>>
JNull == <<"null", << >>>>
JBool(b) == <<"boolean", b>>
JNum(x) == <<"number", x>>
JStr(str) == <<"string", str>>
JArr(elems) == <<"array", elems>>
Kind(j) == j[1]
Content(j) == j[2]

\* the JavaScript number NaN, told from every fraction by its denominator
NaN == [n |-> 0, d |-> 0]
IsFiniteNumber(x) == x.d # 0

\* the fields normalizePayload sets, and the day fields it spreads through
SeqFields == {"salesPerDay", "agentDaily", "agentLeaderboard", "perAgentKPI"}
NumFields == {"totalSales", "totalAgents", "avgPerAgent", "avgDailyAgents", "totalKPI"}
PassFields == {"dayGoal", "dayPercent"}
PayloadFields == {"ok", "updatedAt", "date"} \cup SeqFields \cup NumFields \cup PassFields

\* x ?? d on JSON values
NullishOr(j, d) == IF Kind(j) \in {"absent", "null"} THEN d ELSE j

\* StringToNumber on the strings of the model
StringToNumber(str) == IF str = "" THEN Num(0) ELSE IF str = "12" THEN Num(12) ELSE NaN

\* Number(value): an array converts through its join(",") string, an object
\* through "[object Object]"
ToNumber(j) ==
  CASE Kind(j) = "number" -> Content(j)
    [] Kind(j) = "string" -> StringToNumber(Content(j))
    [] Kind(j) = "boolean" -> (IF Content(j) THEN Num(1) ELSE Num(0))
    [] Kind(j) = "null" -> Num(0)
    [] Kind(j) = "array" -> (IF Content(j) = << >> THEN Num(0) ELSE NaN)
    [] OTHER -> NaN

ArrayOrWrapped(j) == IF Kind(j) = "array" THEN Content(j) ELSE <<Content(j)>>

\* Array.isArray(json?.field) ? json.field : []
ArrayOrEmpty(j) == IF Kind(j) = "array" THEN Content(j) ELSE << >>

\* Number(json?.field ?? 0)
NumberOrZero(j) == ToNumber(NullishOr(j, JNum(Num(0))))

\* normalizePayload(json): the spread keeps every other property; sequence
\* fields become arrays, numeric fields numbers (fractions or NaN)
normalizePayload(json) ==
  [f \in DOMAIN json |->
     IF f \in SeqFields THEN ArrayOrEmpty(json[f])
     ELSE IF f \in NumFields THEN NumberOrZero(json[f])
     ELSE IF f = "ok" THEN NullishOr(json[f], JBool(TRUE))
     ELSE IF f = "updatedAt" THEN NullishOr(json[f], JStr("now"))
     ELSE json[f]]

\* a payload with no property at all, and what the page holds before any
\* payload arrived (data = null)
NoJson == [f \in PayloadFields |-> JAbsent]
NoData == << >>

(* ================= derivations on rows of any shape =================== *)
\* A row as it may arrive has optional agent, sales and percent; a day has
\* an optional byAgent.
\* what the derivations read from such a row: sales || 0 (sales ?? 0)
Tighten(l) ==
  [agent |-> l.agent, sales |-> Coalesce(l.sales, 0), percent |-> l.percent,
   status |-> Absent, target |-> Absent]

\* the row handed to a comparator; the name "a" stands in for a missing one
\* where the comparator is not called or raises (see SortRaises)
Named(l) == [Tighten(l) EXCEPT !.agent = Coalesce(l.agent, "a")]

\* d.byAgent || []
DayOrEmpty(d) == [date |-> d.date, byAgent |-> Coalesce(d.byAgent, << >>)]
DaysOrEmpty(days) == [i \in 1..Len(days) |-> DayOrEmpty(days[i])]

\* rangeData?.agentDaily ?? [], dayData?.perAgentKPI ?? [] (part_000, part_001)
ArrayOrNone(j) == Content(NullishOr(j, JArr(<< >>)))

\* a.agent.localeCompare(...) (page.tsx) and a.agent.toLowerCase() (part_001)
\* raise a TypeError on a row without agent; sort calls the comparator on
\* every element of an array of two or more
SortRaises(v, rows, key) ==
  /\ v \in {"page", "part_001"}
  /\ key = "agent"
  /\ Len(rows) >= 2
  /\ \E i \in DOMAIN rows : ~Has(rows[i].agent)

\* arr.sort(compare) on rows of any shape, when it does not raise
SortLoose(v, rows, key, dir) ==
  Permute(rows, SortStable(Len(rows),
            [i \in 1..Len(rows), j \in 1..Len(rows) |->
               Compare(v, Named(rows[i]), Named(rows[j]), key, dir)]))

\* part_000: d.byAgent.find(...) raises a TypeError on a day without byAgent
\* as soon as there is a top agent to look for
StackedRaises(v, m, days) ==
  /\ v = "part_000"
  /\ m = "RANGE"
  /\ Ranked(DaysOrEmpty(days), TopSix) # << >>
  /\ \E i \in DOMAIN days : ~Has(days[i].byAgent)

\* part_000, part_001: (rangeData?.avgPerAgent ?? 0).toFixed(2) raises a
\* TypeError when avgPerAgent is neither nullish nor a number
SummaryRaises(v, m, payload) ==
  /\ v # "page"
  /\ m = "RANGE"
  /\ Kind(NullishOr(payload["avgPerAgent"], JNum(Num(0)))) # "number"

\* the name a row's agent has as a property key
PropertyKey(agent) == Coalesce(agent, "undefined")

\* page.tsx stacked memo, day branch: one row holding every agent of the day
\* (a later row of the same agent overwrites an earlier one), and the agents
\* of the first six rows as keys
stackedDay(rows, date) ==
  [data |-> <<[date |-> date,
               vals |-> [k \in {PropertyKey(rows[i].agent) : i \in DOMAIN rows} |->
                           rows[CHOOSE i \in DOMAIN rows :
                                  /\ PropertyKey(rows[i].agent) = k
                                  /\ \A o \in DOMAIN rows :
                                       PropertyKey(rows[o].agent) = k => o <= i].sales]]>>,
   keys |-> [i \in 1..Min(TopSix, Len(rows)) |-> PropertyKey(rows[i].agent)]]

\* page.tsx stacked memo: the day branch needs a non-empty perAgentKPI
stackedPage(m, rows, days, date) ==
  IF m = "DAY" /\ Len(rows) > 0 THEN stackedDay(rows, date)
  ELSE buildStacked(DaysOrEmpty(days), TopSix)

\* the payload's numbers as the summary of a variant reads them
TotalsOf(v, payload) ==
  [f \in NumFields |->
     IF v = "page" THEN <<normalizePayload(payload)[f]>>
     ELSE IF Kind(payload[f]) = "number" THEN <<Content(payload[f])>> ELSE Absent]

\* the memos of a render in the order the variant evaluates them
RenderOrder(v) ==
  IF v = "page" THEN <<"table", "stacked", "summary">>
  ELSE IF v = "part_000" THEN <<"stacked", "summary", "charts", "table">>
  ELSE <<"summary", "table", "charts">>

\* the memo after memo cur, "rendered" after the last one
MemoAfter(v, cur) ==
  LET i == CHOOSE k \in DOMAIN RenderOrder(v) : RenderOrder(v)[k] = cur
  IN IF i = Len(RenderOrder(v)) THEN "rendered" ELSE RenderOrder(v)[i + 1]

(* ============================= day percent ============================ *)
\* j ?? d, for a property that holds a number or is nullish
NumberOr(j, dflt) == IF Kind(j) \in {"absent", "null"} THEN dflt ELSE Content(j)

\* (total / goal) * 100 for goal # 0
PercentOfGoal(total, goal) ==
  LET n == total.n * 100 * goal.d
      d == total.d * goal.n
  IN IF d < 0 THEN Frac(-n, -d) ELSE Frac(n, d)

\* Number.prototype.toFixed(1), as the number it prints
ToFixed1(x) ==
  LET r == Frac((2 * 10 * Abs(x.n) + x.d) \div (2 * x.d), 10)
  IN IF x.n < 0 THEN [n |-> -r.n, d |-> r.d] ELSE r

\* part_001: the "% of KPI" pill
\*   goal = dayGoal ?? 0; total = totalKPI ?? 0
\*   p = dayPercent ?? (goal ? (total / goal) * 100 : 0)
\*   (Number.isFinite(p) ? p : 0).toFixed(1)
dayPercentP1(payload) ==
  LET goal  == NumberOr(payload["dayGoal"], Num(0))
      total == NumberOr(payload["totalKPI"], Num(0))
      p     == NumberOr(payload["dayPercent"],
                        IF goal.n # 0 THEN PercentOfGoal(total, goal) ELSE Num(0))
      shown == IF IsFiniteNumber(p) THEN p ELSE Num(0)
  IN [value |-> shown, shown |-> ToFixed1(shown)]

\* part_000: Math.round((dayData?.dayPercent ?? 0) * 10) / 10
dayPercentP0(payload) ==
  LET p == NumberOr(payload["dayPercent"], Num(0))
  IN [value |-> p, shown |-> RoundTenths(p)]

(* ============================== state ================================= *)
VARIABLES
  pc,               \* "input": nothing derived yet; "called"; "rendered"
  variant,          \* the page: "page" (page.tsx) | "part_000" | "part_001"; the proxy: "route" | "part_002"
  mode,             \* "RANGE" | "DAY"
  agentDaily,       \* the payload's agentDaily
  perAgentKPI,      \* the payload's perAgentKPI
  agentLeaderboard, \* the payload's agentLeaderboard
  topN,             \* the topN handed to buildStacked
  sortKey,          \* "agent" | "sales" | "percent"
  sortDir,          \* "asc" | "desc"
  built,            \* what buildStacked(agentDaily, topN) returned
  stacked,          \* part_000's stacked memo
  leaderboard,      \* the rows of the leaderboard table
  kpiChartData,     \* the data of the KPI chart
  salesChartData,   \* part_001: the data of the sales chart
  totals,           \* the payload's numbers: totalKPI, totalSales, totalAgents, ...
  kpis,             \* the summary shown (page.tsx kpis, headerStats elsewhere)
  json,             \* the payload as received, property -> JSON value
  data,             \* page.tsx: the data state, normalizePayload(json), or NoData
  error,            \* "none", or the exception a render raised
  dayPercent,       \* the "% of KPI" pill of the day view
  rangeDays,        \* the rangeDays state
  pickedDate,       \* pickedDate (page.tsx), selectedDate (part_000), date (part_001)
  requests,         \* the fetches issued so far, each with its reply once it came
  effectRuns,       \* part_000: how often the fetch effect has run
  loading,          \* the loading flag
  errorText,        \* errorMsg (page.tsx), err (part_000), errorText (part_001)
  rangeData,        \* part_000, part_001: the stored range payload, or NoData
  dayData,          \* part_000, part_001: the stored day payload, or NoData
  query,            \* proxy: the search parameters of the request
  upstreamQuery,    \* proxy: the parameters sent upstream
  upstream,         \* proxy: what the upstream does with the call
  response          \* proxy: the response of the handler

groupVars == <<agentDaily, topN, built, stacked>>
rankVars == <<perAgentKPI, agentLeaderboard, sortKey, sortDir, leaderboard>>
kpiVars == <<kpiChartData, salesChartData>>
sumVars == <<totals, kpis>>
loadVars == <<json, data, error, dayPercent>>
fetchVars == <<rangeDays, pickedDate, requests, effectRuns, loading, errorText, rangeData, dayData>>
proxyVars == <<query, upstreamQuery, upstream, response>>
vars == <<pc, variant, mode, groupVars, rankVars, kpiVars, sumVars, loadVars, fetchVars, proxyVars>>

NoStack == [data |-> << >>, keys |-> << >>]

\* useState defaults: page.tsx sorts by sales, part_001 by percent, both
\* descending; part_000 has no sort state and always sorts by percent
DefaultSortKey(v) == IF v = "page" THEN "sales" ELSE "percent"

RankIdle ==
  /\ perAgentKPI = << >>
  /\ agentLeaderboard = << >>
  /\ sortKey = "sales"
  /\ sortDir = "desc"
  /\ leaderboard = << >>

KpiIdle ==
  /\ kpiChartData = << >>
  /\ salesChartData = << >>

NoTotals ==
  [totalKPI |-> Absent, totalSales |-> Absent, totalAgents |-> Absent,
   avgPerAgent |-> Absent, avgDailyAgents |-> Absent]
NoSummary ==
  [totalSales |-> Num(0), totalAgents |-> Num(0), avgPerAgent |-> Num(0), avgDailyAgents |-> Num(0)]

SumIdle ==
  /\ totals = NoTotals
  /\ kpis = NoSummary

NoDayPercent == [value |-> Num(0), shown |-> Num(0)]

LoadIdle ==
  /\ json = NoJson
  /\ data = NoData
  /\ error = "none"
  /\ dayPercent = NoDayPercent

FetchIdle ==
  /\ rangeDays = 30
  /\ pickedDate = ""
  /\ requests = << >>
  /\ effectRuns = 0
  /\ loading = FALSE
  /\ errorText = JStr("")
  /\ rangeData = NoData
  /\ dayData = NoData

NoResponse == [status |-> 0, ok |-> JAbsent]
NoUpstream == [fetch |-> "rejects", status |-> 0, text |-> "rejects", body |-> ""]

ProxyIdle ==
  /\ query = [p \in {"days", "date", "diag"} |-> Absent]
  /\ upstreamQuery = {}
  /\ upstream = NoUpstream
  /\ response = NoResponse

GroupIdle ==
  /\ agentDaily = << >>
  /\ topN = TopSix
  /\ built = NoStack
  /\ stacked = NoStack

(* ---------------- inputs: series of at most MaxDays days -------------- *)
GroupRecord == [agent : GroupAgents, sales : GroupSales]

\* the series with n days whose k records recs are dealt to the days by tag
SeriesOf(n, recs, tag) ==
  [d \in 1..n |->
     [date |-> DateOf(d),
      byAgent |-> LET idx == SelectSeq([i \in 1..Len(recs) |-> i], LAMBDA i : tag[i] = d)
                  IN [j \in 1..Len(idx) |-> recs[idx[j]]]]]

\* tag deals records 1..k to days 1..n in payload order
DealsInOrder(k, tag) == \A i \in 1..k, j \in 1..k : i < j => tag[i] <= tag[j]

InitGrouper ==
  /\ pc = "input"
  /\ variant = "part_000"
  /\ mode = "RANGE"
  /\ \E n \in 0..MaxDays, k \in 0..MaxRecs :
       \E recs \in [1..k -> GroupRecord], tag \in [1..k -> 1..n] :
         /\ DealsInOrder(k, tag)
         /\ agentDaily = SeriesOf(n, recs, tag)
  /\ topN \in 0..MaxTopN
  /\ built = NoStack
  /\ stacked = NoStack
  /\ RankIdle
  /\ KpiIdle
  /\ SumIdle
  /\ LoadIdle
  /\ FetchIdle
  /\ ProxyIdle

\* buildStacked(agentDaily, topN)
CallBuildStacked ==
  /\ pc = "input"
  /\ pc' = "called"
  /\ built' = buildStacked(agentDaily, topN)
  /\ UNCHANGED <<fetchVars, proxyVars>>
  /\ UNCHANGED <<variant, mode, agentDaily, topN, stacked, rankVars, kpiVars, sumVars, loadVars>>

\* part_000: the stacked memo of a render
RenderStacked ==
  /\ pc = "called"
  /\ pc' = "rendered"
  /\ stacked' = stackedP0(mode, agentDaily)
  /\ UNCHANGED <<fetchVars, proxyVars>>
  /\ UNCHANGED <<variant, mode, agentDaily, topN, built, rankVars, kpiVars, sumVars, loadVars>>

NextGrouper == CallBuildStacked \/ RenderStacked

SpecGrouper == InitGrouper /\ [][NextGrouper]_vars

(* ------------- inputs: tables of at most MaxRows rows ----------------- *)
RankAgents == {"Z", "A", "B", "a"}
\* sales and precomputed percent of a row
RankValues == {[sales |-> 5, percent |-> Absent], [sales |-> 5, percent |-> <<0>>],
               [sales |-> 9, percent |-> <<50>>], [sales |-> 9, percent |-> Absent]}

Row(agent, val) ==
  [agent |-> agent, sales |-> val.sales, percent |-> val.percent,
   status |-> Absent, target |-> Absent]

\* no agent has two rows
DistinctNames(k, names) == \A i \in 1..k, j \in 1..k : names[i] = names[j] => i = j

TableOf(k, names, vals) == [i \in 1..k |-> Row(names[i], vals[i])]

\* the agentLeaderboard rows a day payload may carry besides perAgentKPI
FallbackAgents == {"A", "B"}
FallbackValues == {[sales |-> 5, percent |-> Absent], [sales |-> 9, percent |-> Absent]}

\* a day payload shown in DAY mode by any variant, or a range payload shown
\* in RANGE mode by page.tsx; page.tsx reads the agentLeaderboard of a day
\* payload too
InitRanker ==
  /\ pc = "input"
  /\ variant \in {"page", "part_000", "part_001"}
  /\ mode \in {"DAY", "RANGE"}
  /\ mode = "RANGE" => variant = "page"
  /\ \E k \in 0..MaxRows :
       \E names \in [1..k -> RankAgents], vals \in [1..k -> RankValues] :
         /\ DistinctNames(k, names)
         /\ perAgentKPI = (IF mode = "DAY" THEN TableOf(k, names, vals) ELSE << >>)
         /\ mode = "RANGE" => agentLeaderboard = TableOf(k, names, vals)
  /\ (mode = "DAY" /\ variant # "page") => agentLeaderboard = << >>
  /\ (mode = "DAY" /\ variant = "page") =>
       \E f \in 0..Cardinality(FallbackAgents) :
         \E names \in [1..f -> FallbackAgents], vals \in [1..f -> FallbackValues] :
           /\ DistinctNames(f, names)
           /\ agentLeaderboard = TableOf(f, names, vals)
  /\ sortKey = DefaultSortKey(variant)
  /\ sortDir = "desc"
  /\ leaderboard = << >>
  /\ GroupIdle
  /\ KpiIdle
  /\ SumIdle
  /\ LoadIdle
  /\ FetchIdle
  /\ ProxyIdle

\* the leaderboard / sortedDayRows memo with sort state (key, dir): the table
\* rows, and the payload's arrays after the memo ran
TableMemo(key, dir) ==
  LET fromKPI == SourceIsKPI(variant, mode, perAgentKPI)
      source  == IF fromKPI THEN perAgentKPI ELSE agentLeaderboard
      r       == SortedCopy(variant, source, key, dir)
  IN /\ leaderboard' = IF Sorts(variant, mode) THEN r.sorted ELSE source
     /\ perAgentKPI' = IF fromKPI /\ Sorts(variant, mode) THEN r.source ELSE perAgentKPI
     /\ agentLeaderboard' = IF ~fromKPI /\ Sorts(variant, mode) THEN r.source ELSE agentLeaderboard

\* the first render
RenderTable ==
  /\ pc = "input"
  /\ pc' = "rendered"
  /\ TableMemo(sortKey, sortDir)
  /\ UNCHANGED <<fetchVars, proxyVars>>
  /\ UNCHANGED <<variant, mode, sortKey, sortDir, groupVars, kpiVars, sumVars, loadVars>>

Flip(dir) == IF dir = "asc" THEN "desc" ELSE "asc"

ClickHeaderKeepsDir(col, first) ==
  /\ pc = "rendered"
  /\ sortKey' = col
  /\ sortDir' = IF sortKey = col THEN Flip(sortDir) ELSE sortDir
  /\ TableMemo(sortKey', sortDir')
  /\ UNCHANGED <<fetchVars, proxyVars>>
  /\ UNCHANGED <<pc, variant, mode, groupVars, kpiVars, sumVars, loadVars>>

\* onClick of a header of column col whose first direction is first:
\*   setSortKey(col); setSortDir(d => sortKey === col ? flip(d) : first)
\* and the render that follows
ClickHeader(col, first) ==
  /\ pc = "rendered"
  /\ sortKey' = col
  /\ sortDir' = IF sortKey = col THEN Flip(sortDir) ELSE first
  /\ TableMemo(sortKey', sortDir')
  /\ UNCHANGED <<fetchVars, proxyVars>>
  /\ UNCHANGED <<pc, variant, mode, groupVars, kpiVars, sumVars, loadVars>>

ClickAgent == variant \in {"page", "part_001"} /\ ClickHeader("agent", "asc")
ClickSales == variant \in {"page", "part_001"} /\ ClickHeader("sales", "desc")
\* part_001 shows the KPI % header in DAY mode only
ClickPercent == variant = "part_001" /\ mode = "DAY" /\ ClickHeader("percent", "desc")

NextRanker == RenderTable \/ ClickAgent \/ ClickSales \/ ClickPercent

SpecRanker == InitRanker /\ [][NextRanker]_vars

(* ------------- inputs: day rows with status and target ---------------- *)
KpiSales == {0, 5}
KpiPercents == {Absent, <<-10>>, <<250>>}
KpiStatuses == {Absent, <<"FT">>, <<"PT">>}
KpiTargets == {Absent, <<5>>}
KpiName(i) == IF i = 1 THEN "A" ELSE IF i = 2 THEN "B" ELSE IF i = 3 THEN "Z" ELSE "a"

KpiFields == [sales : KpiSales, percent : KpiPercents, status : KpiStatuses, target : KpiTargets]

KpiTableOf(k, f) ==
  [i \in 1..k |-> [agent |-> KpiName(i), sales |-> f[i].sales, percent |-> f[i].percent,
                   status |-> f[i].status, target |-> f[i].target]]

\* a day payload shown in DAY mode by part_000 or part_001
InitKpi ==
  /\ pc = "input"
  /\ variant \in {"part_000", "part_001"}
  /\ mode = "DAY"
  /\ \E k \in 0..MaxKpiRows : \E f \in [1..k -> KpiFields] : perAgentKPI = KpiTableOf(k, f)
  /\ agentLeaderboard = << >>
  /\ sortKey = DefaultSortKey(variant)
  /\ sortDir = "desc"
  /\ leaderboard = << >>
  /\ GroupIdle
  /\ KpiIdle
  /\ SumIdle
  /\ LoadIdle
  /\ FetchIdle
  /\ ProxyIdle

\* the chart memos of a render
RenderCharts ==
  /\ pc = "input"
  /\ pc' = "rendered"
  /\ kpiChartData' = IF variant = "part_001"
                     THEN [i \in 1..Len(perAgentKPI) |-> KpiChartEntry(perAgentKPI[i])]
                     ELSE ChartDataP0(perAgentKPI)
  /\ salesChartData' = IF variant = "part_001"
                       THEN [i \in 1..Len(perAgentKPI) |-> SalesChartEntry(perAgentKPI[i])]
                       ELSE << >>
  /\ UNCHANGED <<fetchVars, proxyVars>>
  /\ UNCHANGED <<variant, mode, groupVars, rankVars, sumVars, loadVars>>

NextKpi == RenderCharts

SpecKpi == InitKpi /\ [][NextKpi]_vars

(* ------------- inputs: payloads with their summary numbers ------------ *)
SumAgents == {"A", "B"}
SumRecord == [agent : SumAgents, sales : GroupSales]

AgentsOfDay(d) == {d.byAgent[j].agent : j \in DOMAIN d.byAgent}
AgentsOfSeries(daily) == UNION {AgentsOfDay(daily[i]) : i \in DOMAIN daily}

RECURSIVE SumOfCounts(_, _)
SumOfCounts(daily, i) ==
  IF i = 0 THEN 0 ELSE SumOfCounts(daily, i - 1) + Cardinality(AgentsOfDay(daily[i]))

\* the numbers of a range payload computed from its records
RangeTotals(daily) ==
  LET sales  == SumSales(AllRecords(daily))
      agents == Cardinality(AgentsOfSeries(daily))
  IN [totalKPI |-> Absent,
      totalSales |-> <<Num(sales)>>,
      totalAgents |-> <<Num(agents)>>,
      avgPerAgent |-> <<IF agents = 0 THEN Num(0) ELSE Frac(sales, agents)>>,
      avgDailyAgents |-> <<IF Len(daily) = 0 THEN Num(0) ELSE Frac(SumOfCounts(daily, Len(daily)), Len(daily))>>]

\* the numbers of a day payload computed from its rows
DayTotals(rows) ==
  [totalKPI |-> <<Num(SumSales(rows))>>, totalSales |-> Absent, totalAgents |-> Absent,
   avgPerAgent |-> Absent, avgDailyAgents |-> Absent]

\* the fields a payload may lack: none, any single one, or all of them
MissingSets ==
  {{}} \cup {{f} : f \in DOMAIN NoTotals} \cup {DOMAIN NoTotals}

Without(t, missing) == [f \in DOMAIN t |-> IF f \in missing THEN Absent ELSE t[f]]

\* a payload whose numbers are right where it has them, shown by any variant;
\* an agent may have several rows in a day payload
InitSummary ==
  /\ pc = "input"
  /\ variant \in {"page", "part_000", "part_001"}
  /\ mode \in {"DAY", "RANGE"}
  /\ \E missing \in MissingSets :
       \/ /\ mode = "DAY"
          /\ missing \in {{}, {"totalKPI"}}
          /\ \E k \in 0..MaxRows :
               \E names \in [1..k -> RankAgents], vals \in [1..k -> RankValues] :
                 perAgentKPI = TableOf(k, names, vals)
          /\ agentDaily = << >>
          /\ totals = Without(DayTotals(perAgentKPI), missing)
       \/ /\ mode = "RANGE"
          /\ "totalKPI" \notin missing \/ missing = DOMAIN NoTotals
          /\ perAgentKPI = << >>
          /\ \E n \in 0..MaxDays, k \in 0..MaxRecs :
               \E recs \in [1..k -> SumRecord], tag \in [1..k -> 1..n] :
                 /\ DealsInOrder(k, tag)
                 /\ agentDaily = SeriesOf(n, recs, tag)
          /\ totals = Without(RangeTotals(agentDaily), missing)
  /\ agentLeaderboard = << >>
  /\ topN = TopSix
  /\ built = NoStack
  /\ stacked = NoStack
  /\ sortKey = DefaultSortKey(variant)
  /\ sortDir = "desc"
  /\ leaderboard = << >>
  /\ KpiIdle
  /\ kpis = NoSummary
  /\ LoadIdle
  /\ FetchIdle
  /\ ProxyIdle

\* the kpis / headerStats memo of a render
RenderSummary ==
  /\ pc = "input"
  /\ pc' = "rendered"
  /\ kpis' = Summary(variant, mode, perAgentKPI, totals)
  /\ UNCHANGED <<fetchVars, proxyVars>>
  /\ UNCHANGED <<variant, mode, groupVars, rankVars, kpiVars, totals, loadVars>>

NextSummary == RenderSummary

SpecSummary == InitSummary /\ [][NextSummary]_vars

(* ------------- inputs: payloads of any shape --------------------------- *)
\* what a sequence field may hold: nothing, null, a string, a two-element array
SeqJson == {JAbsent, JNull, JStr("x"), JArr(<<"r2", "r1">>)}
\* what a numeric field may hold: nothing, null, a number, a non-numeric string
NumJson == {JAbsent, JNull, JNum(Num(7)), JStr("abc")}

PayloadOf(seqs, nums) ==
  [f \in PayloadFields |->
     IF f \in SeqFields THEN seqs[f] ELSE IF f \in NumFields THEN nums[f] ELSE JAbsent]

\* page.tsx before the response of a fetch is stored
InitNormalize ==
  /\ pc = "input"
  /\ variant = "page"
  /\ mode = "RANGE"
  /\ \E seqs \in [SeqFields -> SeqJson], nums \in [NumFields -> NumJson] :
       json = PayloadOf(seqs, nums)
  /\ data = NoData
  /\ error = "none"
  /\ dayPercent = NoDayPercent
  /\ FetchIdle
  /\ ProxyIdle
  /\ GroupIdle
  /\ RankIdle
  /\ KpiIdle
  /\ SumIdle

\* fetchRange / fetchDay: setData(normalizePayload(json))
SetData ==
  /\ pc = "input"
  /\ pc' = "loaded"
  /\ data' = normalizePayload(json)
  /\ UNCHANGED <<fetchVars, proxyVars>>
  /\ UNCHANGED <<variant, mode, groupVars, rankVars, kpiVars, sumVars, json, error, dayPercent>>

NextNormalize == SetData

SpecNormalize == InitNormalize /\ [][NextNormalize]_vars

(* ------------- inputs: payloads whose rows and days lack fields ------- *)
LooseRow == [agent : {Absent, <<"A">>, <<"B">>}, sales : {Absent, <<5>>}, percent : {Absent, <<50>>}]
\* the byAgent of a day: missing, empty, or one record
LooseByAgent == {Absent, <<<< >>>>, <<<<[agent |-> "A", sales |-> 1]>>>>}
\* the avgPerAgent of a range payload: missing, a number, a numeric string
AvgJson == {JAbsent, JNum(Num(2)), JStr("12")}

LooseDays(n, by) == [i \in 1..n |-> [date |-> DateOf(i), byAgent |-> by[i]]]

\* a day payload (rows in perAgentKPI) or a range payload (rows in
\* agentLeaderboard, days in agentDaily, avgPerAgent); ok is true, part_001
\* stores no other payload
LoosePayload(m, rows, days, avg) ==
  IF m = "DAY" THEN [NoJson EXCEPT !["ok"] = JBool(TRUE), !["perAgentKPI"] = JArr(rows)]
  ELSE [NoJson EXCEPT !["ok"] = JBool(TRUE),
                      !["agentLeaderboard"] = JArr(rows),
                      !["agentDaily"] = JArr(days),
                      !["avgPerAgent"] = avg]

\* a variant that has stored a payload and is about to render it
InitShapes ==
  /\ variant \in {"page", "part_000", "part_001"}
  /\ mode \in {"DAY", "RANGE"}
  /\ pc = RenderOrder(variant)[1]
  /\ \E k \in 0..MaxKpiRows, n \in 0..MaxDays :
       \E rows \in [1..k -> LooseRow], by \in [1..n -> LooseByAgent], avg \in AvgJson :
         /\ mode = "DAY" => (n = 0 /\ avg = JAbsent)
         /\ json = LoosePayload(mode, rows, LooseDays(n, by), avg)
  /\ data = IF variant = "page" THEN normalizePayload(json) ELSE NoData
  /\ error = "none"
  /\ dayPercent = NoDayPercent
  /\ FetchIdle
  /\ ProxyIdle
  /\ perAgentKPI = << >>
  /\ agentLeaderboard = << >>
  /\ sortKey = DefaultSortKey(variant)
  /\ sortDir = "desc"
  /\ leaderboard = << >>
  /\ GroupIdle
  /\ KpiIdle
  /\ SumIdle

\* the arrays a variant derives from: page.tsx reads the normalized data,
\* part_000 and part_001 the payload itself
ShapeArray(f) == IF variant = "page" THEN data[f] ELSE ArrayOrNone(json[f])

ShapeSource ==
  IF SourceIsKPI(variant, mode, ShapeArray("perAgentKPI"))
  THEN ShapeArray("perAgentKPI") ELSE ShapeArray("agentLeaderboard")

\* the leaderboard / sortedDayRows memo, or part_000's inline sort
MemoTable ==
  /\ pc = "table"
  /\ IF Sorts(variant, mode) /\ SortRaises(variant, ShapeSource, sortKey)
     THEN /\ pc' = "failed"
          /\ error' = "TypeError"
          /\ UNCHANGED leaderboard
     ELSE /\ pc' = MemoAfter(variant, "table")
          /\ error' = error
          /\ leaderboard' = IF Sorts(variant, mode)
                            THEN SortLoose(variant, ShapeSource, sortKey, sortDir)
                            ELSE ShapeSource
  /\ UNCHANGED <<fetchVars, proxyVars>>
  /\ UNCHANGED <<variant, mode, groupVars, perAgentKPI, agentLeaderboard, sortKey, sortDir,
                 kpiVars, sumVars, json, data, dayPercent>>

\* the stacked memo of page.tsx and of part_000
MemoStacked ==
  /\ pc = "stacked"
  /\ IF StackedRaises(variant, mode, ShapeArray("agentDaily"))
     THEN /\ pc' = "failed"
          /\ error' = "TypeError"
          /\ UNCHANGED stacked
     ELSE /\ pc' = MemoAfter(variant, "stacked")
          /\ error' = error
          /\ stacked' = IF variant = "page"
                        THEN stackedPage(mode, ShapeArray("perAgentKPI"),
                                         ShapeArray("agentDaily"), "Selected")
                        ELSE stackedP0(mode, DaysOrEmpty(ShapeArray("agentDaily")))
  /\ UNCHANGED <<fetchVars, proxyVars>>
  /\ UNCHANGED <<variant, mode, agentDaily, topN, built, rankVars, kpiVars, sumVars,
                 json, data, dayPercent>>

\* the kpis memo of page.tsx, the headerStats memo of part_000 and part_001
MemoSummary ==
  /\ pc = "summary"
  /\ IF SummaryRaises(variant, mode, json)
     THEN /\ pc' = "failed"
          /\ error' = "TypeError"
          /\ UNCHANGED kpis
     ELSE /\ pc' = MemoAfter(variant, "summary")
          /\ error' = error
          /\ kpis' = Summary(variant, mode, ShapeArray("perAgentKPI"), TotalsOf(variant, json))
  /\ UNCHANGED <<fetchVars, proxyVars>>
  /\ UNCHANGED <<variant, mode, groupVars, rankVars, kpiVars, totals, json, data, dayPercent>>

\* the chart data of part_000 and part_001; no row of these shapes makes it
\* raise
MemoCharts ==
  /\ pc = "charts"
  /\ pc' = MemoAfter(variant, "charts")
  /\ LET rows == [i \in 1..Len(ShapeArray("perAgentKPI")) |-> Tighten(ShapeArray("perAgentKPI")[i])]
     IN /\ kpiChartData' = IF variant = "part_001"
                           THEN [i \in 1..Len(rows) |-> KpiChartEntry(rows[i])]
                           ELSE ChartDataP0(rows)
        /\ salesChartData' = IF variant = "part_001"
                             THEN [i \in 1..Len(rows) |-> SalesChartEntry(rows[i])]
                             ELSE << >>
  /\ UNCHANGED <<fetchVars, proxyVars>>
  /\ UNCHANGED <<variant, mode, groupVars, rankVars, sumVars, loadVars>>

\* a click on the Agent header of the table, and the render it causes
ClickAgentHeader ==
  /\ pc = "rendered"
  /\ variant \in {"page", "part_001"}
  /\ sortKey' = "agent"
  /\ sortDir' = IF sortKey = "agent" THEN Flip(sortDir) ELSE "asc"
  /\ pc' = RenderOrder(variant)[1]
  /\ UNCHANGED <<fetchVars, proxyVars>>
  /\ UNCHANGED <<variant, mode, groupVars, perAgentKPI, agentLeaderboard, leaderboard,
                 kpiVars, sumVars, loadVars>>

NextShapes == MemoTable \/ MemoStacked \/ MemoSummary \/ MemoCharts \/ ClickAgentHeader

SpecShapes == InitShapes /\ [][NextShapes]_vars

(* ------------- inputs: the payloads of page.tsx's stacked memo -------- *)
DayName(i) ==
  CASE i = 1 -> "A" [] i = 2 -> "B" [] i = 3 -> "C" [] i = 4 -> "D" [] i = 5 -> "E"
    [] i = 6 -> "F" [] i = 7 -> "G" [] i = 8 -> "H" [] OTHER -> "I"

\* a well-formed row as the rows of any shape are written
Loosen(r) == [agent |-> <<r.agent>>, sales |-> <<r.sales>>, percent |-> r.percent]
LoosenDay(d) == [date |-> d.date, byAgent |-> <<d.byAgent>>]

\* page.tsx showing a day payload of up to MaxDayRows agents or a range series
InitDayStack ==
  /\ pc = "input"
  /\ variant = "page"
  /\ mode \in {"DAY", "RANGE"}
  /\ \/ /\ mode = "DAY"
        /\ \E k \in 0..MaxDayRows : \E sales \in [1..k -> GroupSales] :
             perAgentKPI = [i \in 1..k |-> Row(DayName(i), [sales |-> sales[i], percent |-> Absent])]
        /\ agentDaily = << >>
     \/ /\ mode = "RANGE"
        /\ perAgentKPI = << >>
        /\ \E n \in 0..MaxDays, k \in 0..MaxRecs :
             \E recs \in [1..k -> GroupRecord], tag \in [1..k -> 1..n] :
               /\ DealsInOrder(k, tag)
               /\ agentDaily = SeriesOf(n, recs, tag)
  /\ topN = TopSix
  /\ built = NoStack
  /\ stacked = NoStack
  /\ agentLeaderboard = << >>
  /\ sortKey = DefaultSortKey(variant)
  /\ sortDir = "desc"
  /\ leaderboard = << >>
  /\ KpiIdle
  /\ SumIdle
  /\ LoadIdle
  /\ FetchIdle
  /\ ProxyIdle

\* page.tsx: the stacked memo of a render
RenderStackedPage ==
  /\ pc = "input"
  /\ pc' = "rendered"
  /\ stacked' = stackedPage(mode, [i \in 1..Len(perAgentKPI) |-> Loosen(perAgentKPI[i])],
                            [i \in 1..Len(agentDaily) |-> LoosenDay(agentDaily[i])], "Selected")
  /\ UNCHANGED <<fetchVars, proxyVars>>
  /\ UNCHANGED <<variant, mode, agentDaily, topN, built, rankVars, kpiVars, sumVars, loadVars>>

NextDayStack == RenderStackedPage

SpecDayStack == InitDayStack /\ [][NextDayStack]_vars

(* ------------- inputs: day payloads with goal and total --------------- *)
GoalJson == {JAbsent, JNum(Num(-5)), JNum(Num(0)), JNum(Num(3)), JNum(Num(10))}
TotalJson == {JAbsent, JNum(Num(0)), JNum(Num(5)), JNum(Num(7))}
PercentJson == {JAbsent, JNum(Num(50)), JNum(Num(-20))}

\* part_000 or part_001 showing a day payload
InitDayPercent ==
  /\ pc = "input"
  /\ variant \in {"part_000", "part_001"}
  /\ mode = "DAY"
  /\ \E goal \in GoalJson, total \in TotalJson, pct \in PercentJson :
       json = [NoJson EXCEPT !["ok"] = JBool(TRUE), !["dayGoal"] = goal,
                             !["totalKPI"] = total, !["dayPercent"] = pct]
  /\ data = NoData
  /\ error = "none"
  /\ dayPercent = NoDayPercent
  /\ FetchIdle
  /\ ProxyIdle
  /\ perAgentKPI = << >>
  /\ agentLeaderboard = << >>
  /\ sortKey = DefaultSortKey(variant)
  /\ sortDir = "desc"
  /\ leaderboard = << >>
  /\ GroupIdle
  /\ KpiIdle
  /\ SumIdle

\* the pill of a render
RenderDayPercent ==
  /\ pc = "input"
  /\ pc' = "rendered"
  /\ dayPercent' = IF variant = "part_001" THEN dayPercentP1(json) ELSE dayPercentP0(json)
  /\ UNCHANGED <<fetchVars, proxyVars>>
  /\ UNCHANGED <<variant, mode, groupVars, rankVars, kpiVars, sumVars, json, data, error>>

NextDayPercent == RenderDayPercent

SpecDayPercent == InitDayPercent /\ [][NextDayPercent]_vars

(* ------------------------------ fetches ------------------------------- *)
\* the fetches a page issues in a behaviour
MaxFetches == 3

\* the range buttons and the dates of the model
RangeChoices == {7, 30}
PageDates == {"2024-01-02", "2024-01-03"}
PartDates == {"01-02-2024", "01-03-2024"}

\* encodeURIComponent(n) on the range choices
DaysParam(n) == IF n = 7 THEN "7" ELSE "30"

\* page.tsx fetchDay: [yyyy, mm, dd] = yyyyMmDd.split("-"); `${mm}-${dd}-${yyyy}`
MmDdYyyy(date) == IF date = "2024-01-02" THEN "01-02-2024" ELSE "01-03-2024"

\* what a request comes back with: a payload with ok: true, a payload with
\* no ok field, a failure object { ok: false } with no error, with error ""
\* or with error "quota", or nothing (fetch or res.json() rejects)
FetchReplies == {"payload", "bare", "failed", "failedEmpty", "failedQuota", "throw"}
FailureReplies == {"failed", "failedEmpty", "failedQuota"}

\* the JSON body of reply r to the i-th request; every payload differs
ReplyJson(i, r) ==
  [f \in PayloadFields \cup {"error"} |->
     IF r \in {"payload", "bare"}
     THEN (IF f = "ok" THEN (IF r = "payload" THEN JBool(TRUE) ELSE JAbsent)
           ELSE IF f = "totalSales" THEN JNum(Num(i))
           ELSE IF f \in SeqFields THEN JArr(<<"r1">>)
           ELSE JAbsent)
     ELSE (IF f = "ok" THEN JBool(FALSE)
           ELSE IF f = "error" THEN (IF r = "failed" THEN JAbsent
                                     ELSE IF r = "failedEmpty" THEN JStr("")
                                     ELSE JStr("quota"))
           ELSE JAbsent)]

\* !value on a JSON value
Falsy(j) ==
  CASE Kind(j) \in {"absent", "null"} -> TRUE
    [] Kind(j) = "boolean" -> ~Content(j)
    [] Kind(j) = "string" -> Content(j) = ""
    [] Kind(j) = "number" -> Content(j).n = 0
    [] OTHER -> FALSE

\* part_001: new Error(json.error || "Upstream error").message
UpstreamMessage(body) ==
  IF Falsy(body["error"]) THEN "Upstream error" ELSE Content(body["error"])

\* the message of the TypeError a rejected fetch throws
FetchRejected == "Failed to fetch"

\* String(e?.message || e) on an Error with message msg
CatchMessage(msg) == IF msg # "" THEN msg ELSE "Error"

\* part_001: what the try block of a fetch throws on reply r: nothing, or an
\* Error with a message
ThrownP1(i, r) ==
  IF r = "throw" THEN <<FetchRejected>>
  ELSE IF Falsy(ReplyJson(i, r)["ok"]) THEN <<UpstreamMessage(ReplyJson(i, r))>>
  ELSE << >>

StoredAfterClearing(old, body, thrown) == IF thrown # << >> THEN NoData ELSE body

\* part_001: setRangeData(json) / setDayData(json) is skipped by a throw
StoredAfterP1(old, body, thrown) == IF thrown # << >> THEN old ELSE body

\* page.tsx: the message of the catch block
FailedToLoad(kind) == IF kind = "RANGE" THEN "Failed to load range" ELSE "Failed to load day"

\* setErrorMsg(""), setErr(""), setErrorText(null)
ClearedError(v) == IF v = "part_001" THEN JNull ELSE JStr("")

NeverCancelled(req) == FALSE

\* part_000: the cancel flag of the effect run that issued req
Cancelled(req) == req.cancel

NewRequest(kind, arg, run) ==
  [kind |-> kind, arg |-> arg, run |-> run, cancel |-> FALSE, reply |-> "none"]

\* the state the effects of a render write
FetchState ==
  [requests |-> requests, effectRuns |-> effectRuns, loading |-> loading, errorText |-> errorText]

\* page.tsx and part_001, fetchRange / fetchDay up to the first await:
\*   setLoading(true); setErrorMsg("") (setErrorText(null)); fetch(url)
StartFetch(v, st, kind, arg) ==
  [st EXCEPT !.requests = Append(st.requests, NewRequest(kind, arg, st.effectRuns)),
             !.loading = TRUE,
             !.errorText = ClearedError(v)]

\* page.tsx: the two effects, run when one of their dependencies changed
\*   [mode, rangeDays]:  if (mode === "RANGE") fetchRange(rangeDays)
\*   [mode, pickedDate]: if (mode === "DAY" && pickedDate) fetchDay(pickedDate)
EffectsPage(st, m, days, date, changed) ==
  LET s1 == IF changed \cap {"mode", "rangeDays"} # {} /\ m = "RANGE"
            THEN StartFetch("page", st, "RANGE", DaysParam(days)) ELSE st
  IN IF changed \cap {"mode", "pickedDate"} # {} /\ m = "DAY" /\ date # ""
     THEN StartFetch("page", s1, "DAY", MmDdYyyy(date)) ELSE s1

\* part_001: the initial load (on mount only) and the two effects
\*   []:                mode === "DAY" ? fetchDay(date) : fetchRange(rangeDays)
\*   [date, mode]:      if (mode === "DAY") fetchDay(date)
\*   [rangeDays, mode]: if (mode === "RANGE") fetchRange(rangeDays)
EffectsP1(st, m, days, date, changed, mount) ==
  LET s0 == IF ~mount THEN st
            ELSE IF m = "DAY" THEN StartFetch("part_001", st, "DAY", date)
            ELSE StartFetch("part_001", st, "RANGE", DaysParam(days))
      s1 == IF changed \cap {"pickedDate", "mode"} # {} /\ m = "DAY"
            THEN StartFetch("part_001", s0, "DAY", date) ELSE s0
  IN IF changed \cap {"rangeDays", "mode"} # {} /\ m = "RANGE"
     THEN StartFetch("part_001", s1, "RANGE", DaysParam(days)) ELSE s1

\* part_000: the effect on [mode, rangeDays, selectedDate]: the cleanup of the
\* previous run sets its cancel flag; the new run does setLoading(true),
\* setErr("") and issues a fetch, or, in DAY mode with no date, goes on to
\* its finally block and does setLoading(false)
EffectP0(st, m, days, date) ==
  LET cleaned == [i \in DOMAIN st.requests |->
                    IF st.requests[i].run = st.effectRuns
                    THEN [st.requests[i] EXCEPT !.cancel = TRUE] ELSE st.requests[i]]
      run     == st.effectRuns + 1
  IN IF m = "RANGE"
     THEN [requests |-> Append(cleaned, NewRequest("RANGE", DaysParam(days), run)),
           effectRuns |-> run, loading |-> TRUE, errorText |-> ClearedError("part_000")]
     ELSE IF date # ""
     THEN [requests |-> Append(cleaned, NewRequest("DAY", date, run)),
           effectRuns |-> run, loading |-> TRUE, errorText |-> ClearedError("part_000")]
     ELSE [requests |-> cleaned,
           effectRuns |-> run, loading |-> FALSE, errorText |-> ClearedError("part_000")]

\* the effects of the render after mode, rangeDays and the date became m,
\* days and date
Effects(v, st, m, days, date, changed, mount) ==
  IF v = "page" THEN EffectsPage(st, m, days, date, changed)
  ELSE IF v = "part_001" THEN EffectsP1(st, m, days, date, changed, mount)
  ELSE EffectP0(st, m, days, date)

\* useState defaults
DefaultMode(v) == IF v = "part_001" THEN "DAY" ELSE "RANGE"
DefaultDate(v) == IF v = "part_001" THEN "01-02-2024" ELSE ""

\* a page before its first effects ran
InitFetch ==
  /\ pc = "input"
  /\ variant \in {"page", "part_000", "part_001"}
  /\ mode = DefaultMode(variant)
  /\ rangeDays = 30
  /\ pickedDate = DefaultDate(variant)
  /\ requests = << >>
  /\ effectRuns = 0
  /\ loading = FALSE
  /\ errorText = ClearedError(variant)
  /\ rangeData = NoData
  /\ dayData = NoData
  /\ sortKey = DefaultSortKey(variant)
  /\ sortDir = "desc"
  /\ perAgentKPI = << >>
  /\ agentLeaderboard = << >>
  /\ leaderboard = << >>
  /\ GroupIdle
  /\ KpiIdle
  /\ SumIdle
  /\ LoadIdle
  /\ ProxyIdle

\* a render with new mode, rangeDays and date, and the effects after it
RenderWith(m, days, date, changed, mount) ==
  LET st == Effects(variant, FetchState, m, days, date, changed, mount)
  IN /\ Len(st.requests) <= MaxFetches
     /\ mode' = m
     /\ rangeDays' = days
     /\ pickedDate' = date
     /\ requests' = st.requests
     /\ effectRuns' = st.effectRuns
     /\ loading' = st.loading
     /\ errorText' = st.errorText
     /\ UNCHANGED <<variant, rangeData, dayData, groupVars, rankVars, kpiVars, sumVars, loadVars, proxyVars>>

\* the first render: every effect runs
Mount ==
  /\ pc = "input"
  /\ pc' = "mounted"
  /\ RenderWith(mode, rangeDays, pickedDate, {"mode", "rangeDays", "pickedDate"}, TRUE)

\* onClick of the Range / Day tab: setMode(m)
SetMode(m) ==
  /\ pc = "mounted"
  /\ m # mode
  /\ UNCHANGED pc
  /\ RenderWith(m, rangeDays, pickedDate, {"mode"}, FALSE)

\* the range buttons (select), shown in RANGE mode: setRangeDays(n)
SetRangeDays(n) ==
  /\ pc = "mounted"
  /\ mode = "RANGE"
  /\ n # rangeDays
  /\ UNCHANGED pc
  /\ RenderWith(mode, n, pickedDate, {"rangeDays"}, FALSE)

\* the date input of page.tsx and part_000, shown in DAY mode:
\*   setPickedDate(value) / setSelectedDate(mm-dd-yyyy or "")
PickDate(date) ==
  /\ pc = "mounted"
  /\ variant \in {"page", "part_000"}
  /\ mode = "DAY"
  /\ date # pickedDate
  /\ date \in (IF variant = "page" THEN PageDates ELSE PartDates \cup {""})
  /\ UNCHANGED pc
  /\ RenderWith(mode, rangeDays, date, {"pickedDate"}, FALSE)

\* the date input of part_001, always shown: setDate(date); setMode("DAY")
PickDateP1(date) ==
  /\ pc = "mounted"
  /\ variant = "part_001"
  /\ date \in PartDates
  /\ date # pickedDate \/ mode # "DAY"
  /\ UNCHANGED pc
  /\ RenderWith("DAY", rangeDays, date,
                (IF date # pickedDate THEN {"pickedDate"} ELSE {})
                  \cup (IF mode # "DAY" THEN {"mode"} ELSE {}), FALSE)

\* page.tsx: the rest of fetchRange / fetchDay once request i got reply r
\*   setData(normalizePayload(json)), or the catch block; finally setLoading(false)
ArrivePage(i, r) ==
  /\ variant = "page"
  /\ IF r = "throw"
     THEN /\ errorText' = JStr(FailedToLoad(requests[i].kind))
          /\ UNCHANGED data
     ELSE /\ data' = normalizePayload(ReplyJson(i, r))
          /\ UNCHANGED errorText
  /\ loading' = FALSE
  /\ UNCHANGED <<rangeData, dayData, json, error, dayPercent>>

\* part_001: if (!json.ok) throw ...; setRangeData(json) / setDayData(json);
\* catch: setErrorText(String(e?.message || e)); finally setLoading(false)
ArriveP1(i, r) ==
  LET thrown == ThrownP1(i, r)
  IN /\ variant = "part_001"
     /\ errorText' = IF thrown # << >> THEN JStr(CatchMessage(thrown[1])) ELSE errorText
     /\ rangeData' = IF requests[i].kind = "RANGE"
                     THEN StoredAfterP1(rangeData, ReplyJson(i, r), thrown) ELSE rangeData
     /\ dayData' = IF requests[i].kind = "DAY"
                   THEN StoredAfterP1(dayData, ReplyJson(i, r), thrown) ELSE dayData
     /\ loading' = FALSE
     /\ UNCHANGED loadVars

\* part_000: every write after the await is guarded by if (!cancel)
ArriveP0(i, r) ==
  /\ variant = "part_000"
  /\ IF Cancelled(requests[i])
     THEN UNCHANGED <<rangeData, dayData, errorText, loading>>
     ELSE /\ errorText' = IF r = "throw" THEN JStr(CatchMessage(FetchRejected)) ELSE errorText
          /\ rangeData' = IF r # "throw" /\ requests[i].kind = "RANGE"
                          THEN ReplyJson(i, r) ELSE rangeData
          /\ dayData' = IF r # "throw" /\ requests[i].kind = "DAY"
                        THEN ReplyJson(i, r) ELSE dayData
          /\ loading' = FALSE
  /\ UNCHANGED loadVars

\* request i gets its reply
Arrive(i, r) ==
  /\ pc = "mounted"
  /\ i \in DOMAIN requests
  /\ requests[i].reply = "none"
  /\ requests' = [requests EXCEPT ![i].reply = r]
  /\ ArrivePage(i, r) \/ ArriveP1(i, r) \/ ArriveP0(i, r)
  /\ UNCHANGED <<pc, variant, mode, rangeDays, pickedDate, effectRuns,
                 groupVars, rankVars, kpiVars, sumVars, proxyVars>>

NextFetch ==
  \/ Mount
  \/ \E m \in {"RANGE", "DAY"} : SetMode(m)
  \/ \E n \in RangeChoices : SetRangeDays(n)
  \/ \E date \in PageDates \cup PartDates \cup {""} : PickDate(date)
  \/ \E date \in PartDates : PickDateP1(date)
  \/ \E i \in 1..MaxFetches, r \in FetchReplies : Arrive(i, r)

SpecFetch == InitFetch /\ [][NextFetch]_vars

(* ------------------------------- proxy -------------------------------- *)
\* the search parameters the handlers read; a parameter is missing, empty
\* or has a value
ProxyParams == {"days", "date", "diag"}
ParamValues == {Absent, <<"">>, <<"7">>}

\* the bodies the upstream may send: a JSON payload with ok: true, a JSON
\* object with ok: false, a JSON object with no ok that quotes a doctype, an
\* HTML page, plain text, nothing
UpstreamBodies == {"payload", "failure", "quoting", "html", "text", ""}
UpstreamStatuses == {200, 404, 500}

\* what the upstream does: fetch rejects; or it answers with a status and
\* res.text() gives the body or rejects
UpstreamOutcomes ==
  {NoUpstream}
    \cup {[fetch |-> "answers", status |-> s, text |-> "rejects", body |-> ""] : s \in UpstreamStatuses}
    \cup {[fetch |-> "answers", status |-> s, text |-> "resolves", body |-> b] :
            s \in UpstreamStatuses, b \in UpstreamBodies}

\* JSON.parse(text) succeeds
ParsesAsJson(body) == body \in {"payload", "failure", "quoting"}

\* the ok property of the parsed body
ParsedOk(body) ==
  IF body = "payload" THEN JBool(TRUE) ELSE IF body = "failure" THEN JBool(FALSE) ELSE JAbsent

\* part_002: raw.trim().startsWith("<") || raw.includes("<!DOCTYPE html")
LooksHtml(body) == body \in {"html", "quoting"}

\* Response.ok: a status in 200..299
StatusOk(status) == status >= 200 /\ status <= 299

\* if (days) qs.set("days", days); ...: the parameters sent upstream
Forwarded(q, names) == {p \in names : Has(q[p]) /\ q[p][1] # ""}

\* route.ts GET: the body is parsed whatever the upstream status is
\*   parsed: 200 with the parsed body; not JSON: 502 { ok: false, ... };
\*   fetch or res.text() rejects: 500 { ok: false, error }
GetRoute(up) ==
  IF up.fetch = "rejects" \/ up.text = "rejects" THEN [status |-> 500, ok |-> JBool(FALSE)]
  ELSE IF ParsesAsJson(up.body) THEN [status |-> 200, ok |-> ParsedOk(up.body)]
  ELSE [status |-> 502, ok |-> JBool(FALSE)]

GetPart2IgnoringStatus(up) ==
  IF up.fetch = "rejects" \/ up.text = "rejects" THEN [status |-> 500, ok |-> JBool(FALSE)]
  ELSE IF LooksHtml(up.body) THEN [status |-> 500, ok |-> JBool(FALSE)]
  ELSE IF ~ParsesAsJson(up.body) THEN [status |-> 500, ok |-> JBool(FALSE)]
  ELSE [status |-> 200, ok |-> ParsedOk(up.body)]

\* part_002 GET
\*   !resp.ok || looksHtml: 500 { ok: false, ... }; JSON.parse fails: 500
\*   { ok: false, ... }; else the parsed body with the default status 200;
\*   fetch or resp.text() rejects: 500 { ok: false, error }
GetPart2(up) ==
  IF up.fetch = "rejects" \/ up.text = "rejects" THEN [status |-> 500, ok |-> JBool(FALSE)]
  ELSE IF ~StatusOk(up.status) \/ LooksHtml(up.body) THEN [status |-> 500, ok |-> JBool(FALSE)]
  ELSE IF ~ParsesAsJson(up.body) THEN [status |-> 500, ok |-> JBool(FALSE)]
  ELSE [status |-> 200, ok |-> ParsedOk(up.body)]

\* a request to a handler, and what the upstream will do with the call
InitProxy ==
  /\ pc = "input"
  /\ variant \in {"route", "part_002"}
  /\ mode = "RANGE"
  /\ query \in [ProxyParams -> ParamValues]
  /\ upstreamQuery = {}
  /\ upstream \in UpstreamOutcomes
  /\ response = NoResponse
  /\ GroupIdle
  /\ RankIdle
  /\ KpiIdle
  /\ SumIdle
  /\ LoadIdle
  /\ FetchIdle

\* route.ts: GET(req)
GetByRoute ==
  /\ pc = "input"
  /\ variant = "route"
  /\ pc' = "responded"
  /\ upstreamQuery' = Forwarded(query, {"days", "date", "diag"})
  /\ response' = GetRoute(upstream)
  /\ UNCHANGED <<variant, mode, query, upstream, groupVars, rankVars, kpiVars, sumVars, loadVars, fetchVars>>

\* part_002: GET(request)
GetByPart2 ==
  /\ pc = "input"
  /\ variant = "part_002"
  /\ pc' = "responded"
  /\ upstreamQuery' = Forwarded(query, {"days", "date"})
  /\ response' = GetPart2(upstream)
  /\ UNCHANGED <<variant, mode, query, upstream, groupVars, rankVars, kpiVars, sumVars, loadVars, fetchVars>>

NextProxy == GetByRoute \/ GetByPart2

SpecProxy == InitProxy /\ [][NextProxy]_vars

(* ========================= claims: Top-N Grouper ====================== *)
\* the distinct agent identifiers appearing anywhere in the series
DistinctAgents(daily) ==
  UNION {{daily[i].byAgent[j].agent : j \in DOMAIN daily[i].byAgent} : i \in DOMAIN daily}

Called == pc \in {"called", "rendered"}

\* C1: the number of tracked agents (the returned keys, no agent twice) is
\* min(N, number of distinct agents of the series), for buildStacked with
\* every N >= 0 and for part_000's stacked memo with N = 6.
C1_TrackedSetSize ==
  /\ Called =>
       /\ Len(built.keys) = Min(topN, Cardinality(DistinctAgents(agentDaily)))
       /\ Cardinality(Range(built.keys)) = Len(built.keys)
       /\ Range(built.keys) \subseteq DistinctAgents(agentDaily)
  /\ pc = "rendered" =>
       /\ Len(stacked.keys) = Min(TopSix, Cardinality(DistinctAgents(agentDaily)))
       /\ Cardinality(Range(stacked.keys)) = Len(stacked.keys)
       /\ Range(stacked.keys) \subseteq DistinctAgents(agentDaily)

\* a call that truncates: more distinct agents than N, N > 0
C1_Witness ==
  /\ pc = "called"
  /\ topN > 0
  /\ Cardinality(DistinctAgents(agentDaily)) > topN
  /\ Len(built.keys) = topN

\* what the claim asks of one emitted row: a field for every tracked agent,
\* 0 when the agent has no record that day, the record's sales when it has one
RowIsTotal(row, d, keys) ==
  /\ Range(keys) \subseteq DOMAIN row.vals
  /\ \A a \in Range(keys) :
       /\ (\A j \in DOMAIN d.byAgent : d.byAgent[j].agent # a) => row.vals[a] = 0
       /\ \A j \in DOMAIN d.byAgent :
            (d.byAgent[j].agent = a /\ \A l \in DOMAIN d.byAgent : d.byAgent[l].agent = a => l = j)
              => row.vals[a] = d.byAgent[j].sales

\* C2: every emitted row has, for each tracked agent, a numeric field equal to
\* the agent's sales that day and 0 when the agent has no record that day; the
\* key is never omitted (buildStacked of page.tsx and the memo of part_000).
C2_RowsHaveEveryTrackedAgent ==
  /\ Called =>
       \A i \in DOMAIN built.data : RowIsTotal(built.data[i], agentDaily[i], built.keys)
  /\ pc = "rendered" =>
       \A i \in DOMAIN stacked.data : RowIsTotal(stacked.data[i], agentDaily[i], stacked.keys)

\* total sales of agent a over every day of the series
RECURSIVE SeriesTotal(_, _, _)
SeriesTotal(daily, a, i) ==
  IF i = 0 THEN 0
  ELSE SeriesTotal(daily, a, i - 1)
       + SumSales(SelectSeq(daily[i].byAgent, LAMBDA r : r.agent = a))

\* a comes before b in the claim's ranking: greater total, or the same total
\* and an earlier first appearance in the series
FirstSeen(daily, a) ==
  CHOOSE p \in DOMAIN AllRecords(daily) :
    /\ AllRecords(daily)[p].agent = a
    /\ \A q \in 1..(p - 1) : AllRecords(daily)[q].agent # a

RankedBefore(daily, a, b) ==
  LET ta == SeriesTotal(daily, a, Len(daily))
      tb == SeriesTotal(daily, b, Len(daily))
  IN ta > tb \/ (ta = tb /\ FirstSeen(daily, a) < FirstSeen(daily, b))

IsTopNByTotalThenFirstSeen(daily, keys, n) ==
  /\ Len(keys) = Min(n, Cardinality(DistinctAgents(daily)))
  /\ \A p \in DOMAIN keys :
       /\ keys[p] \in DistinctAgents(daily)
       /\ Cardinality({a \in DistinctAgents(daily) : RankedBefore(daily, a, keys[p])}) = p - 1

\* C3: the tracked set is the first N agents by descending total over the
\* series, equal totals ordered by first appearance in the input series.
C3_TopNByTotalTiesFirstSeen ==
  /\ Called => IsTopNByTotalThenFirstSeen(agentDaily, built.keys, topN)
  /\ pc = "rendered" => IsTopNByTotalThenFirstSeen(agentDaily, stacked.keys, TopSix)

(* ======================= claims: Leaderboard Ranker =================== *)
Rendered == pc = "rendered"

\* the sequence the table is made from
TableSource == IF SourceIsKPI(variant, mode, perAgentKPI) THEN perAgentKPI ELSE agentLeaderboard

\* the sort key of a row as the claims speak of it: the agent name (page.tsx
\* compares names as they are, part_001 in lower case), the sales, or the
\* percent with a missing percent taken as 0; part_000 always sorts by percent
ClaimKey(v, r, key) ==
  IF v = "part_000" \/ key = "percent" THEN <<"percent", Coalesce(r.percent, 0)>>
  ELSE IF key = "sales" THEN <<"sales", r.sales>>
  ELSE IF v = "page" THEN <<"agent", r.agent>>
  ELSE <<"agent", LowerCase(r.agent)>>

PositionOf(rows, agent) == CHOOSE i \in DOMAIN rows : rows[i].agent = agent

\* C4: rows with equal sort keys keep the relative order they have in the
\* input, for every sort key and both directions.
C4_EqualKeysKeepInputOrder ==
  (Rendered /\ Sorts(variant, mode)) =>
    /\ \A i \in DOMAIN leaderboard : \E p \in DOMAIN TableSource : TableSource[p] = leaderboard[i]
    /\ \A i \in DOMAIN leaderboard, j \in DOMAIN leaderboard :
         (i < j /\ ClaimKey(variant, leaderboard[i], sortKey) = ClaimKey(variant, leaderboard[j], sortKey))
           => PositionOf(TableSource, leaderboard[i].agent) < PositionOf(TableSource, leaderboard[j].agent)

\* the example: [Z(5), A(5), B(9)] by sales descending is [B, Z, A]
C4_Witness ==
  /\ Rendered
  /\ sortKey = "sales" /\ sortDir = "desc"
  /\ Len(TableSource) = 3
  /\ [i \in 1..3 |-> <<TableSource[i].agent, TableSource[i].sales>>] = <<<<"Z", 5>>, <<"A", 5>>, <<"B", 9>>>>
  /\ [i \in 1..3 |-> leaderboard[i].agent] = <<"B", "Z", "A">>

\* C5: sorting the ranker's output again with the same key and direction
\* gives a sequence identical to that output.
C5_SortIsIdempotent ==
  (Rendered /\ Sorts(variant, mode)) =>
    SortRows(variant, leaderboard, sortKey, sortDir) = leaderboard

\* an output with tied rows that the sort had to reorder
C5_Witness ==
  /\ Rendered /\ Sorts(variant, mode)
  /\ Len(leaderboard) = 3
  /\ leaderboard # TableSource
  /\ \E i \in 1..2 : ClaimKey(variant, leaderboard[i], sortKey) = ClaimKey(variant, leaderboard[i + 1], sortKey)
  /\ SortRows(variant, leaderboard, sortKey, sortDir) = leaderboard

\* C6: no sort (any key, any direction) changes the sequences the payload
\* holds: perAgentKPI and agentLeaderboard have the same elements in the same
\* order after every step.
C6_SourceUntouched ==
  [][perAgentKPI' = perAgentKPI /\ agentLeaderboard' = agentLeaderboard]_vars

\* a sort whose result is ordered differently from the source it was made from
C6_Witness ==
  /\ Rendered /\ Sorts(variant, mode)
  /\ Len(TableSource) >= 2
  /\ Len(leaderboard) = Len(TableSource)
  /\ leaderboard # TableSource

(* ========================= claims: KPI Calculator ===================== *)
\* the chart entries made from the row of an agent
EntriesOf(agent) == {e \in Range(kpiChartData) : e.agent = agent}

\* C7: for a record with no precomputed percent, no goal of its own and no
\* status, agentPercent is the explicit unknown value (no number), so it is
\* never 0 (the KPI chart of part_001 and of part_000).
C7_UnknownWhenNoGoalDerivable ==
  Rendered =>
    \A i \in DOMAIN perAgentKPI :
      (~Has(perAgentKPI[i].percent) /\ ~Has(perAgentKPI[i].target) /\ ~Has(perAgentKPI[i].status))
        => \A e \in EntriesOf(perAgentKPI[i].agent) : e.raw = Absent

\* the goal the claim names: the record's own when present, otherwise the
\* default of its status, FT -> 6.5 and PT -> 4.0
ClaimedGoal(r) ==
  IF Has(r.target) THEN [n |-> r.target[1], d |-> 1]
  ELSE IF r.status = <<"FT">> THEN [n |-> 65, d |-> 10] ELSE [n |-> 40, d |-> 10]

\* C8: part_001's agentPercent (the raw value of kpiChartData) is the row's
\* percent unchanged when it has one, and otherwise sales / goal * 100 with
\* the goal the row's own target when present and else the default of its
\* status (FT -> 6.5, PT -> 4.0).
C8_PercentVerbatimElseFromGoal ==
  (Rendered /\ variant = "part_001") =>
    /\ Len(kpiChartData) = Len(perAgentKPI)
    /\ \A i \in DOMAIN perAgentKPI :
         LET r == perAgentKPI[i]
             e == kpiChartData[i]
         IN /\ e.agent = r.agent
            /\ Has(e.raw)
            /\ Has(r.percent) => (e.raw[1].d = 1 /\ e.raw[1].n = r.percent[1])
            /\ (~Has(r.percent) /\ (Has(r.target) \/ Has(r.status))) =>
                 e.raw[1].n * ClaimedGoal(r).n = r.sales * 100 * ClaimedGoal(r).d * e.raw[1].d

\* the example: 5 sales of an FT agent with no percent and no target of its
\* own are 5 / 6.5 * 100 = 1000/13 (76.9 %)
C8_Witness ==
  /\ Rendered /\ variant = "part_001"
  /\ \E i \in DOMAIN perAgentKPI :
       /\ perAgentKPI[i].sales = 5 /\ perAgentKPI[i].status = <<"FT">>
       /\ ~Has(perAgentKPI[i].percent) /\ ~Has(perAgentKPI[i].target)
       /\ kpiChartData[i].raw = <<[n |-> 1000, d |-> 13]>>
  /\ \E i \in DOMAIN perAgentKPI :
       /\ perAgentKPI[i].percent = <<250>>
       /\ kpiChartData[i].raw = <<[n |-> 250, d |-> 1]>>

(* ========================= claims: period summary ===================== *)
\* the sum of the sales of every record of the period's payload
PeriodSales ==
  IF mode = "DAY" THEN SumSales(perAgentKPI) ELSE SumSales(AllRecords(agentDaily))

\* C9: for a day and for a range, the summary's totalSales is the sum of the
\* sales of every record of that period's payload.
C9_TotalSalesIsSumOfRecords ==
  Rendered => (kpis.totalSales.d = 1 /\ kpis.totalSales.n = PeriodSales)

\* C10: in every summary avgPerAgent is 0 when totalAgents is 0 and is
\* otherwise totalSales / totalAgents of the same summary.
C10_AverageIsTotalOverAgents ==
  Rendered =>
    /\ kpis.totalAgents.n = 0 => kpis.avgPerAgent.n = 0
    /\ kpis.totalAgents.n # 0 =>
         kpis.avgPerAgent.n * kpis.totalAgents.n * kpis.totalSales.d
           = kpis.totalSales.n * kpis.totalAgents.d * kpis.avgPerAgent.d

(* ======================= claims: Record Normalizer ==================== *)
Loaded == pc = "loaded"

\* C11: each sequence field of the normalized payload is an array: the
\* empty one when the input field is absent, null or not an array, and the
\* input array with the same elements in the same order otherwise.
C11_SequenceFieldsAreArrays ==
  Loaded =>
    \A f \in SeqFields :
      /\ Kind(json[f]) = "array" => data[f] = Content(json[f])
      /\ Kind(json[f]) # "array" => data[f] = << >>

\* a payload with an array passed through and a string coerced to empty
C11_Witness ==
  /\ Loaded
  /\ json["agentDaily"] = JArr(<<"r2", "r1">>) /\ data["agentDaily"] = <<"r2", "r1">>
  /\ json["perAgentKPI"] = JStr("x") /\ data["perAgentKPI"] = << >>
  /\ json["salesPerDay"] = JNull /\ data["salesPerDay"] = << >>
  /\ json["agentLeaderboard"] = JAbsent /\ data["agentLeaderboard"] = << >>

\* C12: each numeric field of the normalized payload is a finite number,
\* whatever the input field holds, and is 0 when the input field is absent
\* or null.
C12_NumericFieldsAreFinite ==
  Loaded =>
    \A f \in NumFields :
      /\ IsFiniteNumber(data[f])
      /\ Kind(json[f]) \in {"absent", "null"} => data[f] = Num(0)

(* ==================== claims: payloads of any shape =================== *)
\* C13: no derivation (top-N grouping, leaderboard sort, KPI computation,
\* summary) raises an exception, whatever fields the days and rows of the
\* payload lack: every render runs to its end.
C13_NoDerivationRaises == error = "none" /\ pc # "failed"

(* ================== claims: Top-N Grouper, second part ================ *)
\* C14: in range mode and in the single-day stacked view, the agent fields of
\* every emitted row are exactly the tracked set (keys): no row carries a
\* field for an agent outside it.
C14_RowFieldsAreTrackedSet ==
  Rendered =>
    \A i \in DOMAIN stacked.data : DOMAIN stacked.data[i].vals = Range(stacked.keys)

\* the rows follow the days: as many, in the same order, with the same dates
RowsFollowDays(rows, daily) ==
  /\ Len(rows) = Len(daily)
  /\ \A i \in DOMAIN daily : rows[i].date = daily[i].date

\* C15: the grouped output has exactly one row per day of the input series,
\* in the order of the input, the i-th row dated as the i-th day
\* (buildStacked of page.tsx and the stacked memo of part_000).
C15_OneRowPerDayInOrder ==
  /\ Called => RowsFollowDays(built.data, agentDaily)
  /\ pc = "rendered" => RowsFollowDays(stacked.data, agentDaily)

\* a series of two days, the first without any record, grouped by both
C15_Witness ==
  /\ pc = "rendered"
  /\ Len(agentDaily) = 2
  /\ agentDaily[1].byAgent = << >> /\ agentDaily[2].byAgent # << >>
  /\ topN > 0
  /\ [i \in 1..2 |-> built.data[i].date] = <<"d1", "d2">>
  /\ [i \in 1..2 |-> stacked.data[i].date] = <<"d1", "d2">>

(* ========================== claims: day percent ======================= *)
\* C16: for a day payload without a percent of its own, the day percent is
\* totalSales / goal * 100 when goal > 0 and 0 when goal <= 0 or missing; the
\* percent shown is a number and, the total being non-negative, never negative.
C16_DayPercentGuardsGoal ==
  Rendered =>
    LET goal  == NumberOr(json["dayGoal"], Num(0))
        total == NumberOr(json["totalKPI"], Num(0))
    IN /\ Kind(json["dayPercent"]) = "absent" =>
            /\ goal.n > 0 => dayPercent.value.n * goal.n = total.n * 100 * dayPercent.value.d
            /\ goal.n <= 0 => dayPercent.value = Num(0)
            /\ dayPercent.shown.n >= 0
       /\ IsFiniteNumber(dayPercent.value) /\ IsFiniteNumber(dayPercent.shown)

(* ====================== claims: KPI chart, clamping =================== *)
\* C17: every percent handed to the KPI chart lies in [0, 200]: a raw percent
\* below 0 is shown as 0, one above 200 as 200, one inside the range is
\* unchanged, and every input row yields exactly one chart entry
\* (kpiChartData of part_001 and the chart data of part_000).
C17_ChartPercentClamped ==
  Rendered =>
    /\ Len(kpiChartData) = Len(perAgentKPI)
    /\ \A i \in DOMAIN kpiChartData :
         LET raw == kpiChartData[i].raw[1]
             pct == kpiChartData[i].percent
         IN /\ FracLess(raw, Num(0)) => pct = Num(0)
            /\ FracLess(Num(200), raw) => pct = Num(200)
            /\ (~FracLess(raw, Num(0)) /\ ~FracLess(Num(200), raw)) => pct = raw

(* ================= claims: Leaderboard Ranker, orders ================= *)
\* the key the table is sorted by: part_000 has no sort state and always
\* sorts by percent
EffectiveKey == IF variant = "part_000" THEN "percent" ELSE sortKey

\* the number a row is ordered by under a numeric key
NumericKey(r, key) == IF key = "sales" THEN r.sales ELSE Coalesce(r.percent, 0)

\* C18: under the key sales or percent the rows are in numeric order in the
\* selected direction: every adjacent pair is non-decreasing for ascending
\* and non-increasing for descending, a missing percent counting as 0.
C18_NumericKeysOrderRows ==
  (Rendered /\ Sorts(variant, mode) /\ EffectiveKey \in {"sales", "percent"}) =>
    /\ Len(leaderboard) = Len(TableSource)
    /\ \A i \in 1..(Len(leaderboard) - 1) :
         LET a == NumericKey(leaderboard[i], EffectiveKey)
             b == NumericKey(leaderboard[i + 1], EffectiveKey)
         IN IF sortDir = "asc" THEN a <= b ELSE a >= b

\* three rows sorted by percent ascending, one of them without a percent
\* ordered before the row with 50
C18_Witness ==
  /\ Rendered /\ variant = "part_001"
  /\ sortKey = "percent" /\ sortDir = "asc"
  /\ Len(leaderboard) = 3
  /\ leaderboard # TableSource
  /\ \E i \in 1..2 : ~Has(leaderboard[i].percent)
  /\ leaderboard[3].percent = <<50>>

\* the place of a name in the lexical order of the lower-cased names
LowerCaseOrder(name) == CodeUnitRank(LowerCase(name))

\* C19: under the key agent the rows are ordered by the case-normalized name:
\* names that differ only in letter case compare equal and keep their input
\* order, and otherwise the order is the lexical order of the lower-cased
\* names, reversed for descending (page.tsx and part_001).
C19_AgentKeyIsCaseNormalized ==
  (Rendered /\ Sorts(variant, mode) /\ variant # "part_000" /\ sortKey = "agent") =>
    /\ \A i \in 1..(Len(leaderboard) - 1) :
         LET a == LowerCaseOrder(leaderboard[i].agent)
             b == LowerCaseOrder(leaderboard[i + 1].agent)
         IN IF sortDir = "asc" THEN a <= b ELSE a >= b
    /\ \A i \in DOMAIN leaderboard, j \in DOMAIN leaderboard :
         (i < j /\ LowerCase(leaderboard[i].agent) = LowerCase(leaderboard[j].agent))
           => PositionOf(TableSource, leaderboard[i].agent) < PositionOf(TableSource, leaderboard[j].agent)

(* ==================== claims: period summary, agents ================== *)
\* the distinct agent identifiers (compared exactly) of the period's payload
PeriodAgents ==
  IF mode = "DAY" THEN {perAgentKPI[i].agent : i \in DOMAIN perAgentKPI}
  ELSE AgentsOfSeries(agentDaily)

\* C20: the summary's totalAgents is the number of distinct agent identifiers
\* appearing in the period; an agent with two records in a day payload is
\* counted once.
C20_TotalAgentsCountsDistinct ==
  Rendered => kpis.totalAgents = Num(Cardinality(PeriodAgents))

(* =================== claims: period summary, single day =============== *)
\* C21: for a single-day period the summary's avgDailyAgents equals its
\* totalAgents, for every day payload and every variant.
C21_DayAverageIsTotalAgents ==
  (Rendered /\ mode = "DAY") => kpis.avgDailyAgents = kpis.totalAgents

\* a day summary over three rows: both numbers are 3
C21_Witness ==
  /\ Rendered /\ mode = "DAY"
  /\ variant = "page"
  /\ Len(perAgentKPI) = 3
  /\ kpis.totalAgents = Num(3)
  /\ kpis.avgDailyAgents = Num(3)

(* ================== claims: Top-N Grouper, empty series =============== *)
\* C22: on a series with no days the grouper returns no rows and no tracked
\* agents (buildStacked for every N, and the stacked memo of part_000).
C22_EmptySeriesGivesEmptyStack ==
  agentDaily = << >> =>
    /\ Called => (built.data = << >> /\ built.keys = << >>)
    /\ pc = "rendered" => (stacked.data = << >> /\ stacked.keys = << >>)

\* both have been computed for a series with no days and N > 0
C22_Witness ==
  /\ pc = "rendered"
  /\ agentDaily = << >>
  /\ topN > 0
  /\ built = [data |-> << >>, keys |-> << >>]
  /\ stacked = [data |-> << >>, keys |-> << >>]

(* ================ claims: Leaderboard Ranker, header clicks =========== *)
\* the direction a column starts with
FirstDir(col) == IF col = "agent" THEN "asc" ELSE "desc"

\* C28: a click on the header of the column that is the sort key flips the
\* direction and keeps the key; a click on another column makes that column
\* the key with the column's first direction (asc for agent, desc for sales
\* and percent), whatever the direction was. The clicked column is the key
\* after the click.
C28_HeaderClickFlipsOrResets ==
  [][pc = "rendered" =>
       IF sortKey' = sortKey THEN sortDir' = Flip(sortDir)
       ELSE sortDir' = FirstDir(sortKey')]_vars

\* part_001 sorted by agent descending: reached only by a click on Agent
\* (ascending) and a second click on it (flipped)
C28_Witness ==
  /\ Rendered
  /\ variant = "part_001"
  /\ sortKey = "agent"
  /\ sortDir = "desc"
  /\ Len(leaderboard) >= 2

(* ================= claims: Leaderboard Ranker, permutation ============ *)
\* how often row r occurs in rows
Occurrences(rows, r) == Cardinality({i \in DOMAIN rows : rows[i] = r})

SameMultiset(s, t) ==
  /\ Len(s) = Len(t)
  /\ \A r \in Range(s) \cup Range(t) : Occurrences(s, r) = Occurrences(t, r)

\* the source the claim names: in DAY mode of page.tsx perAgentKPI when it is
\* not empty and agentLeaderboard otherwise; perAgentKPI in DAY mode of the
\* other variants, agentLeaderboard in RANGE mode
ClaimedSource ==
  IF mode = "RANGE" THEN agentLeaderboard
  ELSE IF variant = "page" /\ perAgentKPI = << >> THEN agentLeaderboard
  ELSE perAgentKPI

Mounted == pc = "mounted"

\* request i got its reply in this step
ArrivedNow(i) ==
  /\ i \in DOMAIN requests
  /\ requests[i].reply = "none"
  /\ requests'[i].reply # "none"

InFlight(i) == i \in DOMAIN requests /\ requests[i].reply = "none"

\* the zero/empty normalized payload: every sequence empty, every number 0
ZeroEmpty(payload) ==
  /\ payload # NoData
  /\ \A f \in SeqFields : payload[f] = << >>
  /\ \A f \in NumFields : payload[f] = Num(0)

\* what page.tsx or part_001 holds for the mode of the i-th request
StoredFor(i) ==
  IF variant = "page" THEN data'
  ELSE IF requests[i].kind = "RANGE" THEN rangeData' ELSE dayData'

\* C23: a failure object (ok falsy, no data fields) is absorbed by the
\* defaults of the normalizer: when it arrives, the stored data becomes the
\* zero/empty normalized payload and no error is raised (page.tsx and
\* part_001, the pages the claim cites).
C23_FailureObjectIsAbsorbed ==
  [][\A i \in DOMAIN requests :
       (variant \in {"page", "part_001"} /\ ArrivedNow(i) /\ requests'[i].reply \in FailureReplies)
         => /\ errorText' = errorText
            /\ ZeroEmpty(StoredFor(i))]_vars

\* C24: in part_000 the response of a superseded fetch (the effect has run
\* again since it was issued) writes none of rangeData, dayData, err and
\* loading, and the stored payloads change only when the response of the
\* most recently started fetch arrives.
C24_SupersededResponseWritesNothing ==
  [][variant = "part_000" =>
       /\ \A i \in DOMAIN requests :
            (ArrivedNow(i) /\ requests[i].run # effectRuns)
              => UNCHANGED <<rangeData, dayData, errorText, loading>>
       /\ (rangeData' # rangeData \/ dayData' # dayData)
            => \E i \in DOMAIN requests : ArrivedNow(i) /\ requests[i].run = effectRuns]_vars

\* a range payload came back after the page went on to a day fetch that is
\* still in flight: no range data is stored, the page is still loading
C24_Witness ==
  /\ Mounted
  /\ variant = "part_000"
  /\ \E i \in DOMAIN requests :
       /\ requests[i].kind = "RANGE"
       /\ requests[i].reply = "payload"
       /\ requests[i].run < effectRuns
  /\ \E i \in DOMAIN requests : InFlight(i) /\ requests[i].run = effectRuns
  /\ rangeData = NoData
  /\ loading

\* C25: in page.tsx, once every fetch has completed the stored data is the
\* normalized response of the most recently issued request (when that request
\* got a response at all).
C25_LastIssuedResponseIsStored ==
  (/\ Mounted
   /\ variant = "page"
   /\ requests # << >>
   /\ \A i \in DOMAIN requests : ~InFlight(i)
   /\ requests[Len(requests)].reply # "throw")
    => data = normalizePayload(ReplyJson(Len(requests), requests[Len(requests)].reply))

\* C26: loading is true in every state in which a fetch is in flight, and
\* false once every issued fetch has completed.
C26_LoadingIffInFlight ==
  Mounted => (loading <=> \E i \in DOMAIN requests : InFlight(i))

\* C27: in part_001 a failing fetch (the request throws, or the response's ok
\* is falsy) sets errorText to a non-empty message and leaves rangeData and
\* dayData as they were; errorText becomes null again only when a fetch starts.
C27_FailureKeepsDataAndSetsError ==
  [][variant = "part_001" =>
       /\ \A i \in DOMAIN requests :
            (ArrivedNow(i) /\ (requests'[i].reply = "throw"
                               \/ Falsy(ReplyJson(i, requests'[i].reply)["ok"])))
              => /\ Kind(errorText') = "string"
                 /\ Content(errorText') # ""
                 /\ UNCHANGED <<rangeData, dayData>>
       /\ (errorText # JNull /\ errorText' = JNull) => Len(requests') > Len(requests)]_vars

\* a day payload was loaded and a later fetch failed with { ok: false }: the
\* payload is still there, the message is shown
C27_Witness ==
  /\ Mounted
  /\ variant = "part_001"
  /\ \E i \in DOMAIN requests : requests[i].reply = "failed"
  /\ errorText = JStr("Upstream error")
  /\ dayData = ReplyJson(1, "payload")
  /\ ~loading

(* ============================= claims: proxy ========================== *)
\* the upstream failed: fetch (or reading the body) rejected, the status is
\* not an OK status, or the body is not JSON
UpstreamFailed ==
  \/ upstream.fetch = "rejects"
  \/ upstream.text = "rejects"
  \/ ~StatusOk(upstream.status)
  \/ ~ParsesAsJson(upstream.body)

\* C29: every upstream failure gives a response with a status other than 200
\* and ok = false in its body, and a 200 response is given only for an
\* upstream reply that succeeded and parsed as JSON (the handler returns a
\* response in every case).
C29_FailuresAreNon200 ==
  pc = "responded" =>
    /\ response # NoResponse
    /\ UpstreamFailed => (response.status # 200 /\ response.ok = JBool(FALSE))
    /\ response.status = 200 => ~UpstreamFailed

============================================================================
